---- MODULE Spec2Model ----
(***************************************************************************)
(* A model of tiny-runtime-injector (src/index.ts): the per-kind platform  *)
(* resolvers, the runtime registry RUNTIME_CONFIGS, the installed-version  *)
(* probe and the fetch-extract-normalize pipeline RuntimeInjector.inject,  *)
(* over an abstract filesystem (target directories and the one temp        *)
(* directory under os.tmpdir()).                                           *)
(***************************************************************************)
EXTENDS Integers, Sequences, FiniteSets, TLC

VARIABLES
    target,     \* target[d]: the files of target directory d (set of entries)
    dirExists,  \* dirExists[d]: target directory d exists on disk
    temp,       \* the directory os.tmpdir()/tiny-runtime-injector-temp
    call,       \* call[c]: the inject call of caller c (options, position, locals)
    prev,       \* the options and result of the call that returned last
    ncalls,     \* number of inject calls started so far
    nfaults,    \* number of environment faults injected so far
    concurrent, \* TRUE when callers may overlap (Promise.all), FALSE when serialized
    qin,        \* input of a pure-function query
    qout        \* result of the pure-function query

vars == <<target, dirExists, temp, call, prev, ncalls, nfaults, concurrent, qin, qout>>
mainVars == <<target, dirExists, temp, call, prev, ncalls, nfaults, concurrent>>

----------------------------------------------------------------------------
(* Bounds of the model *)

MaxCalls == 2
MaxFaults == 1
MaxLen == 3
MaxEntries == 2

----------------------------------------------------------------------------
(* Results of operations that may throw *)

Ok(v) == [tag |-> "ok", val |-> v]
Throw(e) == [tag |-> "throw", val |-> e]
IsOk(r) == r.tag = "ok"

----------------------------------------------------------------------------
(* JavaScript string primitives used by the source *)

\* String.prototype.includes
Includes(s, sub) ==
    \E i \in 0..(Len(s) - Len(sub)) : SubSeq(s, i + 1, i + Len(sub)) = sub

\* String.prototype.indexOf, 1-based; 0 when sub does not occur in s
IndexOf(s, sub) ==
    IF Includes(s, sub)
    THEN CHOOSE i \in 1..(Len(s) - Len(sub) + 1) :
            /\ SubSeq(s, i, i + Len(sub) - 1) = sub
            /\ \A j \in 1..(i - 1) : SubSeq(s, j, j + Len(sub) - 1) # sub
    ELSE 0

\* String.prototype.replace(pattern: string, replacement): the first occurrence only
ReplaceFirst(s, pat, rep) ==
    LET i == IndexOf(s, pat)
    IN  IF i = 0 THEN s
        ELSE SubSeq(s, 1, i - 1) \o rep \o SubSeq(s, i + Len(pat), Len(s))

\* String.prototype.split(sep)[0]: the text before the first sep
SplitAt0(s, sep) ==
    LET i == IndexOf(s, sep)
    IN  IF i = 0 THEN s ELSE SubSeq(s, 1, i - 1)

\* String.prototype.split(sep)[1]: the text between the first and the second sep
SplitAt1(s, sep) ==
    LET i == IndexOf(s, sep)
        rest == SubSeq(s, i + Len(sep), Len(s))
    IN  SplitAt0(rest, sep)

IsSpace(ch) == ch \in {" ", "\n", "\t", "\r"}

\* String.prototype.trim
Trim(s) ==
    LET keep == {i \in 1..Len(s) : ~IsSpace(SubSeq(s, i, i))}
    IN  IF keep = {} THEN ""
        ELSE LET lo == CHOOSE i \in keep : \A j \in keep : i <= j
                 hi == CHOOSE i \in keep : \A j \in keep : j <= i
             IN  SubSeq(s, lo, hi)

----------------------------------------------------------------------------
(* Platform identifier resolvers *)

RuntimeTypes == {"node", "bun", "uv", "ripgrep", "python"}

RipgrepKeys ==
    {"x64-win32", "arm64-win32", "x64-linux", "arm64-linux", "x64-darwin", "arm64-darwin"}

RIPGREP_PLATFORM ==
    [k \in RipgrepKeys |->
        CASE k = "x64-win32"    -> [target |-> "x86_64-pc-windows-msvc", ext |-> "zip"]
          [] k = "arm64-win32"  -> [target |-> "aarch64-pc-windows-msvc", ext |-> "zip"]
          [] k = "x64-linux"    -> [target |-> "x86_64-unknown-linux-musl", ext |-> "tar.gz"]
          [] k = "arm64-linux"  -> [target |-> "aarch64-unknown-linux-gnu", ext |-> "tar.gz"]
          [] k = "x64-darwin"   -> [target |-> "x86_64-apple-darwin", ext |-> "tar.gz"]
          [] k = "arm64-darwin" -> [target |-> "aarch64-apple-darwin", ext |-> "tar.gz"]]

DEFAULT_VERSIONS ==
    [t \in RuntimeTypes |->
        CASE t = "node"    -> "v24.12.0"
          [] t = "bun"     -> "v1.3.5"
          [] t = "uv"      -> "0.9.18"
          [] t = "ripgrep" -> "14.1.1"
          [] t = "python"  -> "3.12.12+20251217"]

getNodePlatformIdentifier(platform, arch) ==
    IF platform = "darwin" THEN
        Ok(IF arch = "arm64" THEN "darwin-arm64" ELSE "darwin-x64")
    ELSE IF platform = "linux" THEN
        Ok(IF arch = "arm64" THEN "linux-arm64"
           ELSE IF arch \in {"arm", "armv7l"} THEN "linux-armv7l"
           ELSE IF arch \in {"ppc64", "ppc64le"} THEN "linux-ppc64le"
           ELSE IF arch \in {"s390", "s390x"} THEN "linux-s390x"
           ELSE "linux-x64")
    ELSE IF platform = "win32" THEN
        Ok(IF arch = "arm64" THEN "win-arm64"
           ELSE IF arch \in {"ia32", "x86"} THEN "win-x86"
           ELSE "win-x64")
    ELSE Throw("UnsupportedPlatform")

getBunPlatformIdentifier(platform, arch) ==
    IF platform = "darwin" THEN
        Ok(IF arch = "arm64" THEN "darwin-aarch64" ELSE "darwin-x64")
    ELSE IF platform = "linux" THEN
        Ok(IF arch = "arm64" THEN "linux-aarch64" ELSE "linux-x64")
    ELSE IF platform = "win32" THEN
        Ok(IF arch = "arm64" THEN "windows-aarch64" ELSE "windows-x64")
    ELSE Throw("UnsupportedPlatform")

\* getUvPlatformIdentifier rejecting the Linux architectures it does not know
getUvPlatformIdentifierStrict(platform, arch) ==
    IF platform = "darwin" THEN
        Ok(IF arch = "arm64" THEN "aarch64-apple-darwin" ELSE "x86_64-apple-darwin")
    ELSE IF platform = "linux" THEN
        IF arch = "arm64" THEN Ok("aarch64-unknown-linux-gnu")
        ELSE IF arch \in {"x64", "x86_64"} THEN Ok("x86_64-unknown-linux-gnu")
        ELSE IF arch \in {"x86", "ia32"} THEN Ok("i686-unknown-linux-gnu")
        ELSE IF arch \in {"arm", "armv7l"} THEN Ok("armv7-unknown-linux-gnueabihf")
        ELSE IF arch = "ppc64" THEN Ok("powerpc64-unknown-linux-gnu")
        ELSE IF arch = "ppc64le" THEN Ok("powerpc64le-unknown-linux-gnu")
        ELSE IF arch = "s390x" THEN Ok("s390x-unknown-linux-gnu")
        ELSE IF arch = "riscv64" THEN Ok("riscv64gc-unknown-linux-gnu")
        ELSE IF arch = "arm64-musl" THEN Ok("aarch64-unknown-linux-musl")
        ELSE IF arch \in {"x64-musl", "x86_64-musl"} THEN Ok("x86_64-unknown-linux-musl")
        ELSE IF arch \in {"x86-musl", "ia32-musl"} THEN Ok("i686-unknown-linux-musl")
        ELSE IF arch = "arm-musl" THEN Ok("arm-unknown-linux-musleabihf")
        ELSE IF arch = "armv7-musl" THEN Ok("armv7-unknown-linux-musleabihf")
        ELSE Throw("UnsupportedPlatform")
    ELSE IF platform = "win32" THEN
        Ok(IF arch = "arm64" THEN "aarch64-pc-windows-msvc"
           ELSE IF arch \in {"x86", "ia32"} THEN "i686-pc-windows-msvc"
           ELSE "x86_64-pc-windows-msvc")
    ELSE Throw("UnsupportedPlatform")

getUvPlatformIdentifier(platform, arch) ==
    IF platform = "darwin" THEN
        Ok(IF arch = "arm64" THEN "aarch64-apple-darwin" ELSE "x86_64-apple-darwin")
    ELSE IF platform = "linux" THEN
        Ok(IF arch = "arm64" THEN "aarch64-unknown-linux-gnu"
           ELSE IF arch \in {"x64", "x86_64"} THEN "x86_64-unknown-linux-gnu"
           ELSE IF arch \in {"x86", "ia32"} THEN "i686-unknown-linux-gnu"
           ELSE IF arch \in {"arm", "armv7l"} THEN "armv7-unknown-linux-gnueabihf"
           ELSE IF arch = "ppc64" THEN "powerpc64-unknown-linux-gnu"
           ELSE IF arch = "ppc64le" THEN "powerpc64le-unknown-linux-gnu"
           ELSE IF arch = "s390x" THEN "s390x-unknown-linux-gnu"
           ELSE IF arch = "riscv64" THEN "riscv64gc-unknown-linux-gnu"
           ELSE IF arch = "arm64-musl" THEN "aarch64-unknown-linux-musl"
           ELSE IF arch \in {"x64-musl", "x86_64-musl"} THEN "x86_64-unknown-linux-musl"
           ELSE IF arch \in {"x86-musl", "ia32-musl"} THEN "i686-unknown-linux-musl"
           ELSE IF arch = "arm-musl" THEN "arm-unknown-linux-musleabihf"
           ELSE IF arch = "armv7-musl" THEN "armv7-unknown-linux-musleabihf"
           ELSE "x86_64-unknown-linux-gnu")
    ELSE IF platform = "win32" THEN
        Ok(IF arch = "arm64" THEN "aarch64-pc-windows-msvc"
           ELSE IF arch \in {"x86", "ia32"} THEN "i686-pc-windows-msvc"
           ELSE "x86_64-pc-windows-msvc")
    ELSE Throw("UnsupportedPlatform")

\* getRipgrepPlatformIdentifier answering an empty token for a key outside the table
getRipgrepPlatformIdentifierEmpty(platform, arch) ==
    LET platformKey == arch \o "-" \o platform
    IN  IF platformKey \in DOMAIN RIPGREP_PLATFORM
        THEN Ok(RIPGREP_PLATFORM[platformKey].target)
        ELSE Ok("")

getRipgrepPlatformIdentifier(platform, arch) ==
    LET platformKey == arch \o "-" \o platform
    IN  IF platformKey \in DOMAIN RIPGREP_PLATFORM
        THEN Ok(RIPGREP_PLATFORM[platformKey].target)
        ELSE Throw("UnsupportedPlatform")

\* getPythonPlatformIdentifier falling back to x64 as the other resolvers do
getPythonPlatformIdentifierLenient(platform, arch) ==
    IF platform = "darwin" THEN
        Ok(IF arch = "arm64" THEN "aarch64-apple-darwin" ELSE "x86_64-apple-darwin")
    ELSE IF platform = "linux" THEN
        Ok(IF arch = "arm64" THEN "aarch64-unknown-linux-gnu" ELSE "x86_64-unknown-linux-gnu")
    ELSE IF platform = "win32" THEN
        Ok(IF arch = "arm64" THEN "aarch64-pc-windows-msvc" ELSE "x86_64-pc-windows-msvc")
    ELSE Throw("UnsupportedPlatform")

getPythonPlatformIdentifier(platform, arch) ==
    IF platform = "darwin" THEN
        Ok(IF arch = "arm64" THEN "aarch64-apple-darwin" ELSE "x86_64-apple-darwin")
    ELSE IF platform = "linux" THEN
        IF arch = "arm64" THEN Ok("aarch64-unknown-linux-gnu")
        ELSE IF arch \in {"x64", "x86_64"} THEN Ok("x86_64-unknown-linux-gnu")
        ELSE Throw("UnsupportedPlatform")
    ELSE IF platform = "win32" THEN
        IF arch \in {"x64", "x86_64"} THEN Ok("x86_64-pc-windows-msvc")
        ELSE IF arch = "arm64" THEN Ok("aarch64-pc-windows-msvc")
        ELSE Throw("UnsupportedPlatform")
    ELSE Throw("UnsupportedPlatform")

\* The resolver each kind's registry entry calls
resolve(type, platform, arch) ==
    CASE type = "node"    -> getNodePlatformIdentifier(platform, arch)
      [] type = "bun"     -> getBunPlatformIdentifier(platform, arch)
      [] type = "uv"      -> getUvPlatformIdentifier(platform, arch)
      [] type = "ripgrep" -> getRipgrepPlatformIdentifier(platform, arch)
      [] type = "python"  -> getPythonPlatformIdentifier(platform, arch)

----------------------------------------------------------------------------
(* The runtime registry RUNTIME_CONFIGS: URL, archive extension, executable  *)
(* path.  Paths are sequences of components relative to the target directory *)

\* getDownloadUrl with the ripgrep table falling back to the x64-linux entry
getDownloadUrlFallback(type, version, platform, arch) ==
    LET id == resolve(type, platform, arch)
        platformKey == arch \o "-" \o platform
        platformConfig == IF platformKey \in DOMAIN RIPGREP_PLATFORM
                          THEN RIPGREP_PLATFORM[platformKey]
                          ELSE RIPGREP_PLATFORM["x64-linux"]
    IN  IF type = "ripgrep"
        THEN Ok("https://github.com/BurntSushi/ripgrep/releases/download/" \o version
                \o "/ripgrep-" \o version \o "-" \o platformConfig.target
                \o "." \o platformConfig.ext)
        ELSE IF ~IsOk(id) THEN id
        ELSE Ok("https://example.invalid/" \o type \o "-" \o version \o "-" \o id.val)

\* RUNTIME_CONFIGS[type].getDownloadUrl(version, platform, arch)
getDownloadUrl(type, version, platform, arch) ==
    LET id == resolve(type, platform, arch)
    IN  IF type = "node" THEN
            IF ~IsOk(id) THEN id
            ELSE LET fileExtension == IF platform = "win32" THEN "zip" ELSE "tar.gz"
                     fileName == "node-" \o version \o "-" \o id.val \o "." \o fileExtension
                 IN  Ok("https://nodejs.org/dist/" \o version \o "/" \o fileName)
        ELSE IF type = "bun" THEN
            IF ~IsOk(id) THEN id
            ELSE LET fileName == "bun-" \o id.val \o ".zip"
                 IN  Ok("https://github.com/oven-sh/bun/releases/download/bun-"
                        \o version \o "/" \o fileName)
        ELSE IF type = "uv" THEN
            IF ~IsOk(id) THEN id
            ELSE LET fileExtension == IF platform = "win32" THEN "zip" ELSE "tar.gz"
                     fileName == "uv-" \o id.val \o "." \o fileExtension
                 IN  Ok("https://github.com/astral-sh/uv/releases/download/"
                        \o version \o "/" \o fileName)
        ELSE IF type = "ripgrep" THEN
            LET platformKey == arch \o "-" \o platform
            IN  IF platformKey \notin DOMAIN RIPGREP_PLATFORM
                THEN Throw("UnsupportedPlatform")
                ELSE LET platformConfig == RIPGREP_PLATFORM[platformKey]
                         fileName == "ripgrep-" \o version \o "-" \o platformConfig.target
                                     \o "." \o platformConfig.ext
                     IN  Ok("https://github.com/BurntSushi/ripgrep/releases/download/"
                            \o version \o "/" \o fileName)
        ELSE
            IF ~IsOk(id) THEN id
            ELSE LET releaseDate == IF Includes(version, "+")
                                    THEN SplitAt1(version, "+") ELSE "20250117"
                     pythonVersion == IF Includes(version, "+")
                                      THEN SplitAt0(version, "+") ELSE version
                     fileName == "cpython-" \o pythonVersion \o "+" \o releaseDate \o "-"
                                 \o id.val \o "-install_only.tar.gz"
                 IN  Ok("https://github.com/astral-sh/python-build-standalone/releases/download/"
                        \o releaseDate \o "/" \o fileName)

\* getFileExtension with bun following the rule of node and uv
getFileExtensionBunByOs(type, platform, arch) ==
    CASE type \in {"node", "bun", "uv"} -> Ok(IF platform = "win32" THEN "zip" ELSE "tar.gz")
      [] type = "ripgrep" ->
            LET platformKey == arch \o "-" \o platform
            IN  IF platformKey \notin DOMAIN RIPGREP_PLATFORM
                THEN Throw("UnsupportedPlatform")
                ELSE Ok(RIPGREP_PLATFORM[platformKey].ext)
      [] type = "python"  -> Ok("tar.gz")

\* RUNTIME_CONFIGS[type].getFileExtension(platform, arch)
getFileExtension(type, platform, arch) ==
    CASE type = "node"    -> Ok(IF platform = "win32" THEN "zip" ELSE "tar.gz")
      [] type = "bun"     -> Ok("zip")
      [] type = "uv"      -> Ok(IF platform = "win32" THEN "zip" ELSE "tar.gz")
      [] type = "ripgrep" ->
            LET platformKey == arch \o "-" \o platform
            IN  IF platformKey \notin DOMAIN RIPGREP_PLATFORM
                THEN Throw("UnsupportedPlatform")
                ELSE Ok(RIPGREP_PLATFORM[platformKey].ext)
      [] type = "python"  -> Ok("tar.gz")

\* RUNTIME_CONFIGS[type].getExecutablePath(targetDir, platform), relative to targetDir
getExecutablePath(type, platform) ==
    CASE type = "node"    -> IF platform = "win32" THEN <<"node.exe">> ELSE <<"bin", "node">>
      [] type = "bun"     -> IF platform = "win32" THEN <<"bun.exe">> ELSE <<"bun">>
      [] type = "uv"      -> IF platform = "win32" THEN <<"uv.exe">> ELSE <<"uv">>
      [] type = "ripgrep" -> IF platform = "win32" THEN <<"rg.exe">> ELSE <<"rg">>
      [] type = "python"  -> IF platform = "win32" THEN <<"bin", "python.exe">>
                                                   ELSE <<"bin", "python3">>

\* The name of the marker file written by inject and read by isAlreadyInstalled
markerName(type, platform, arch) == type \o "_" \o platform \o "_" \o arch

----------------------------------------------------------------------------
(* The filesystem: a directory is the set of its files, each an entry      *)
(* [path, content, mode]; path is the sequence of components below the     *)
(* directory.                                                              *)

File(p, c, m) == [path |-> p, content |-> c, mode |-> m]

IsPrefix(p, q) == Len(p) <= Len(q) /\ SubSeq(q, 1, Len(p)) = p

\* fs.pathExists(dir/p): a file at p or a directory p holding files
PathExists(files, p) == \E e \in files : IsPrefix(p, e.path)

\* fs.readdir(dir/p): the names directly below p
ReadDir(files, p) ==
    {e.path[Len(p) + 1] : e \in {f \in files : IsPrefix(p, f.path) /\ Len(f.path) > Len(p)}}

\* the entries of src below p, re-rooted at q
Rerooted(src, p, q) ==
    {[e EXCEPT !.path = q \o SubSeq(e.path, Len(p) + 1, Len(e.path))] :
        e \in {f \in src : IsPrefix(p, f.path)}}

\* fs.move(src/p, dst/q, {overwrite: true}) on the pair (src, dst)
MoveSrc(src, p) == {e \in src : ~IsPrefix(p, e.path)}
MoveDst(src, dst, p, q) == {e \in dst : ~IsPrefix(q, e.path)} \cup Rerooted(src, p, q)

\* fs.remove(dir/p)
Remove(files, p) == {e \in files : ~IsPrefix(p, e.path)}

\* fs.chmod(dir/p, 0o755)
Chmod755(files, p) ==
    {IF e.path = p THEN [e EXCEPT !.mode = "755"] ELSE e : e \in files}

----------------------------------------------------------------------------
(* The environment: what upstream publishes and what the binaries print    *)

\* A file's content names the build it belongs to: kind, version and archive URL
Build(type, version, url) == type \o "@" \o version \o "@" \o url
BuildType(content) == SplitAt0(content, "@")
BuildVersion(content) == SplitAt1(content, "@")

\* The layouts an upstream archive may have: the usual one, one with the
\* files at the archive root, and one that lacks the primary executable
Layouts == {"standard", "flat", "noexec"}

\* The paths inside the archive of (type, version, platform, arch); id is the
\* platform token of the archive's file name
ArchivePaths(type, version, platform, id, layout) ==
    LET win == platform = "win32"
    IN  IF type = "node" THEN
            LET dir == "node-" \o version \o "-" \o id
            IN  CASE layout = "standard" ->
                        IF win THEN {<<dir, "node.exe">>, <<dir, "README.md">>,
                                     <<dir, "node_modules", "npm", "docs", "index.html">>}
                        ELSE {<<dir, "bin", "node">>, <<dir, "bin", "npm">>,
                              <<dir, "README.md">>,
                              <<dir, "include", "node", "node.h">>,
                              <<dir, "share", "man", "man1", "node.1">>}
                  [] layout = "flat" ->
                        IF win THEN {<<"node.exe">>} ELSE {<<"bin", "node">>}
                  [] layout = "noexec" -> {<<dir, "README.md">>}
        ELSE IF type = "bun" THEN
            LET dir == "bun-" \o id
                exe == IF win THEN "bun.exe" ELSE "bun"
            IN  CASE layout = "standard" -> {<<dir, exe>>}
                  [] layout = "flat" -> {<<exe>>}
                  [] layout = "noexec" -> {<<dir, "LICENSE">>}
        ELSE IF type = "uv" THEN
            LET dir == "uv-" \o id
                ext == IF win THEN ".exe" ELSE ""
            IN  CASE layout = "standard" -> {<<dir, "uv" \o ext>>, <<dir, "uvx" \o ext>>}
                  [] layout = "flat" -> {<<"uv" \o ext>>, <<"uvx" \o ext>>}
                  [] layout = "noexec" -> {<<"uvx" \o ext>>}
        ELSE IF type = "ripgrep" THEN
            LET dir == "ripgrep-" \o version \o "-" \o id
                exe == IF win THEN "rg.exe" ELSE "rg"
            IN  CASE layout = "standard" -> {<<dir, exe>>, <<dir, "README.md">>}
                  [] layout = "flat" -> {<<exe>>}
                  [] layout = "noexec" -> {<<dir, "README.md">>}
        ELSE
            CASE layout = "standard" ->
                    IF win THEN {<<"python", "python.exe">>, <<"python", "Lib", "os.py">>}
                    ELSE {<<"python", "bin", "python3">>, <<"python", "bin", "pip3">>,
                          <<"python", "lib", "libpython3.so">>,
                          <<"python", "include", "Python.h">>}
              [] layout = "flat" ->
                    IF win THEN {<<"python.exe">>} ELSE {<<"bin", "python3">>}
              [] layout = "noexec" -> {<<"python", "lib", "libpython3.so">>}

\* The files tar.extract / unzip writes below the scratch directory
ArchiveFiles(type, version, platform, id, url, layout) ==
    {File(p, Build(type, version, url), "644") :
        p \in ArchivePaths(type, version, platform, id, layout)}

\* What a binary of the given build prints for its version flag
VersionOutput(content) ==
    LET type == BuildType(content)
        version == BuildVersion(content)
    IN  CASE type = "node"    -> version \o "\n"
          [] type = "bun"     -> (IF SubSeq(version, 1, 1) = "v"
                                  THEN SubSeq(version, 2, Len(version)) ELSE version) \o "\n"
          [] type = "uv"      -> "uv " \o version \o " (7a3ec8a 2025-12-16)\n"
          [] type = "ripgrep" -> "ripgrep " \o version \o "\n"
          [] type = "python"  -> "Python " \o SplitAt0(version, "+") \o "\n"
          [] OTHER -> ""

\* execAsync(testCommand): the host cannot run the file (throw), the file prints
\* nothing, or it prints its version
RunOutcomes(files, p) ==
    {Throw("ExecFailed"), Ok("")} \cup
    {Ok(VersionOutput(e.content)) : e \in {f \in files : f.path = p}}

----------------------------------------------------------------------------
(* Normalization: RUNTIME_CONFIGS[type].extractFiles.  Each returns the     *)
(* result and the scratch and target directories it leaves.                 *)

Moved(res, scratch, tgt) == [res |-> res, scratch |-> scratch, target |-> tgt]

\* node: every entry of extracted/node-{version}-{platformId} is moved up
nodeExtractFiles(scratch, tgt, version, platform, arch) ==
    LET nodeDirName == "node-" \o version \o "-"
                       \o getNodePlatformIdentifier(platform, arch).val
        p == <<nodeDirName>>
    IN  IF ~PathExists(scratch, p)
        THEN Moved(Throw("ENOENT"), scratch, tgt)
        ELSE Moved(Ok("moved"), MoveSrc(scratch, p),
                   {e \in tgt : e.path[1] \notin ReadDir(scratch, p)}
                       \cup Rerooted(scratch, p, <<>>))

\* bun: the executable inside bun-{platformId}, else at the scratch root
bunExtractFiles(scratch, tgt, version, platform, arch) ==
    LET bunDirName == "bun-" \o getBunPlatformIdentifier(platform, arch).val
        execName == IF platform = "win32" THEN "bun.exe" ELSE "bun"
        files == ReadDir(scratch, <<>>)
        found == PathExists(scratch, <<bunDirName>>) \/ execName \in files
        bunExecutable == IF PathExists(scratch, <<bunDirName>>)
                         THEN <<bunDirName, execName>> ELSE <<execName>>
    IN  IF ~found THEN Moved(Throw("ExecutableNotFound"), scratch, tgt)
        ELSE IF ~PathExists(scratch, bunExecutable)
        THEN Moved(Throw("ENOENT"), scratch, tgt)
        ELSE Moved(Ok("moved"), MoveSrc(scratch, bunExecutable),
                   MoveDst(scratch, tgt, bunExecutable, <<execName>>))

\* uv: uv and uvx at the scratch root or inside files[0]; first is files[0]
uvExtractFiles(scratch, tgt, version, platform, arch, first) ==
    LET files == ReadDir(scratch, <<>>)
        execExtension == IF platform = "win32" THEN ".exe" ELSE ""
        uvExec == "uv" \o execExtension
        uvxExec == "uvx" \o execExtension
        uvPath == IF uvExec \in files THEN <<uvExec>> ELSE <<first, uvExec>>
        uvxPath == IF uvxExec \in files THEN <<uvxExec>> ELSE <<first, uvxExec>>
        scratch1 == IF PathExists(scratch, uvPath) THEN MoveSrc(scratch, uvPath) ELSE scratch
        tgt1 == IF PathExists(scratch, uvPath)
                THEN MoveDst(scratch, tgt, uvPath, <<uvExec>>) ELSE tgt
        scratch2 == IF PathExists(scratch1, uvxPath) THEN MoveSrc(scratch1, uvxPath) ELSE scratch1
        tgt2 == IF PathExists(scratch1, uvxPath)
                THEN MoveDst(scratch1, tgt1, uvxPath, <<uvxExec>>) ELSE tgt1
    IN  IF files = {} THEN Moved(Throw("TypeError"), scratch, tgt)
        ELSE Moved(Ok("moved"), scratch2, tgt2)

\* ripgrep: rg at the scratch root, else in the first subdirectory holding it;
\* first is the one the directory listing yields first
ripgrepExtractFiles(scratch, tgt, version, platform, arch, first) ==
    LET execName == IF platform = "win32" THEN "rg.exe" ELSE "rg"
        files == ReadDir(scratch, <<>>)
        inSub == {f \in files : PathExists(scratch, <<f, execName>>)}
        rgPath == IF execName \in files THEN <<execName>> ELSE <<first, execName>>
    IN  IF execName \notin files /\ inSub = {}
        THEN Moved(Throw("ExecutableNotFound"), scratch, tgt)
        ELSE Moved(Ok("moved"), MoveSrc(scratch, rgPath),
                   MoveDst(scratch, tgt, rgPath, <<execName>>))

\* python: every entry of extracted/python is moved up
pythonExtractFiles(scratch, tgt, version, platform, arch) ==
    LET files == ReadDir(scratch, <<>>)
        p == <<"python">>
    IN  IF "python" \notin files
        THEN Moved(Throw("ExecutableNotFound"), scratch, tgt)
        ELSE Moved(Ok("moved"), MoveSrc(scratch, p),
                   {e \in tgt : e.path[1] \notin ReadDir(scratch, p)}
                       \cup Rerooted(scratch, p, <<>>))

\* The directory-listing choices extractFiles depends on: files[0] for uv, the
\* first subdirectory holding rg for ripgrep
FirstChoices(type, scratch, platform) ==
    LET files == ReadDir(scratch, <<>>)
        rg == IF platform = "win32" THEN "rg.exe" ELSE "rg"
        inSub == {f \in files : PathExists(scratch, <<f, rg>>)}
    IN  CASE type = "uv" /\ files # {} -> files
          [] type = "ripgrep" /\ inSub # {} -> inSub
          [] OTHER -> {""}

extractFiles(type, scratch, tgt, version, platform, arch, first) ==
    CASE type = "node"    -> nodeExtractFiles(scratch, tgt, version, platform, arch)
      [] type = "bun"     -> bunExtractFiles(scratch, tgt, version, platform, arch)
      [] type = "uv"      -> uvExtractFiles(scratch, tgt, version, platform, arch, first)
      [] type = "ripgrep" -> ripgrepExtractFiles(scratch, tgt, version, platform, arch, first)
      [] type = "python"  -> pythonExtractFiles(scratch, tgt, version, platform, arch)

----------------------------------------------------------------------------
(* The installed-version probe *)

\* The per-kind comparison of the version-check output with the requested version
versionMatches(type, version, stdout) ==
    LET actualVersion == Trim(stdout)
    IN  CASE type = "node"    -> actualVersion = version
          [] type = "bun"     -> Includes(actualVersion, ReplaceFirst(version, "v", ""))
          [] type = "uv"      -> Includes(actualVersion, version)
          [] type = "ripgrep" -> Includes(actualVersion, version)
          [] type = "python"  ->
                LET pythonVersion == IF Includes(version, "+")
                                     THEN SplitAt0(version, "+") ELSE version
                IN  Includes(actualVersion, pythonVersion)
          [] OTHER -> TRUE

\* the probe gets as far as executing the installed binary
probeRunsExecutable(files, info) ==
    LET markers == {e \in files : e.path = <<markerName(info.type, info.platform, info.arch)>>}
    IN  /\ markers # {}
        /\ Trim((CHOOSE e \in markers : TRUE).content) = info.version
        /\ PathExists(files, info.executablePath)

\* isAlreadyInstalled trusting marker and executable when the execution test throws
isAlreadyInstalledTrusting(files, info, run) ==
    LET markers == {e \in files : e.path = <<markerName(info.type, info.platform, info.arch)>>}
    IN  IF markers = {} THEN FALSE
        ELSE IF Trim((CHOOSE e \in markers : TRUE).content) # info.version THEN FALSE
        ELSE IF ~PathExists(files, info.executablePath) THEN FALSE
        ELSE IF ~IsOk(run) THEN TRUE
        ELSE versionMatches(info.type, info.version, run.val)

\* RuntimeInjector.isAlreadyInstalled on the files of the target directory;
\* run is the outcome of executing the installed binary with its version flag
isAlreadyInstalled(files, info, run) ==
    LET markerFile == <<markerName(info.type, info.platform, info.arch)>>
        markers == {e \in files : e.path = markerFile}
    IN  IF markers = {} THEN FALSE
        ELSE LET installedVersion == (CHOOSE e \in markers : TRUE).content
             IN  IF Trim(installedVersion) # info.version THEN FALSE
                 ELSE IF ~PathExists(files, info.executablePath) THEN FALSE
                 ELSE IF ~IsOk(run) THEN FALSE
                 ELSE versionMatches(info.type, info.version, run.val)

----------------------------------------------------------------------------
(* The cleanup engine *)

\* the components of a '/'-separated path
RECURSIVE SplitPath(_)
SplitPath(s) ==
    LET i == IndexOf(s, "/")
    IN  IF i = 0 THEN <<s>>
        ELSE <<SubSeq(s, 1, i - 1)>> \o SplitPath(SubSeq(s, i + 1, Len(s)))

StartsWith(s, pre) == Len(pre) <= Len(s) /\ SubSeq(s, 1, Len(pre)) = pre
EndsWith(s, suf) == Len(suf) <= Len(s) /\ SubSeq(s, Len(s) - Len(suf) + 1, Len(s)) = suf

\* glob(pattern, {cwd: targetDir, nodir: true}) for the pattern shapes of the
\* cleanup rules: '*', '**/*suffix', '**/dir/**' and 'prefix/**'
GlobMatch(pattern, path) ==
    LET base == path[Len(path)]
    IN  IF pattern = "*" THEN Len(path) = 1
        ELSE IF StartsWith(pattern, "**/*")
        THEN EndsWith(base, SubSeq(pattern, 5, Len(pattern)))
        ELSE IF StartsWith(pattern, "**/") /\ EndsWith(pattern, "/**")
        THEN \E i \in 1..(Len(path) - 1) : path[i] = SubSeq(pattern, 4, Len(pattern) - 3)
        ELSE IF EndsWith(pattern, "/**")
        THEN LET pre == SplitPath(SubSeq(pattern, 1, Len(pattern) - 3))
             IN  IsPrefix(pre, path) /\ Len(path) > Len(pre)
        ELSE SplitPath(pattern) = path

Flag(x, dflt) == IF x = "undefined" THEN dflt ELSE x = "true"

\* the glob patterns cleanupRuntime builds on a target that is neither darwin nor linux
cleanupPatterns(cleanupConfig) ==
    (IF Flag(cleanupConfig.removeDocs, TRUE)
     THEN {"**/*.md", "**/docs/**", "**/doc/**", "share/doc/**", "share/man/**"} ELSE {})
    \cup (IF Flag(cleanupConfig.removeDevFiles, TRUE)
          THEN {"**/*.h", "**/*.cc", "**/*.cpp", "**/*.c", "include/**"} ELSE {})
    \cup (IF Flag(cleanupConfig.removeSourceMaps, TRUE) THEN {"**/*.map"} ELSE {})
    \cup cleanupConfig.customRules

\* cleanupRuntime applying the glob patterns on every platform
cleanupRuntimeByPatterns(files, platform, cleanupConfig) ==
    {e \in files : \A pat \in cleanupPatterns(cleanupConfig) : ~GlobMatch(pat, e.path)}

\* RuntimeInjector.cleanupRuntime on the files of the target directory
cleanupRuntime(files, platform, cleanupConfig) ==
    IF platform \in {"darwin", "linux"}
    THEN Remove(Remove(files, <<"share">>), <<"include">>)
    ELSE {e \in files : \A pat \in cleanupPatterns(cleanupConfig) : ~GlobMatch(pat, e.path)}

\* fs.remove(dir/p) that throws at the entry bad: the entries the walk reached
\* before it (those of the set before) are gone, the others stay
RemoveUntil(files, p, bad, before) ==
    {e \in files : ~IsPrefix(p, e.path) \/ e.path = bad \/ e.path \notin before}

\* the macOS/Linux branch of cleanupRuntime when fs.remove throws at the entry
\* bad: both removals stand in one try block, whose catch logs the error
cleanupUnixFailing(files, bad, before) ==
    LET failing(dir, fs) == IsPrefix(dir, bad) /\ PathExists(fs, bad)
    IN  IF failing(<<"share">>, files)
        THEN RemoveUntil(files, <<"share">>, bad, before)
        ELSE LET afterShare == Remove(files, <<"share">>)
             IN  IF failing(<<"include">>, afterShare)
                 THEN RemoveUntil(afterShare, <<"include">>, bad, before)
                 ELSE Remove(afterShare, <<"include">>)

\* cleanupRuntime when fs.remove throws at the entry bad (and succeeds on every
\* other entry); before holds the entries a listing yields ahead of bad. Each
\* pattern is handled in a try/catch of its own, inside which the first
\* failing removal ends the pattern's loop over its matches. Nothing is rethrown.
cleanupRuntimeFailing(files, platform, cleanupConfig, bad, before) ==
    IF platform \in {"darwin", "linux"}
    THEN Ok(cleanupUnixFailing(files, bad, before))
    ELSE Ok({e \in files :
                \A pat \in cleanupPatterns(cleanupConfig) :
                    \/ ~GlobMatch(pat, e.path)
                    \/ /\ PathExists(files, bad)
                       /\ GlobMatch(pat, bad)
                       /\ e.path = bad \/ e.path \notin before})

\* options.cleanup as inject uses it: a boolean true stands for all three categories
BoolCleanup(on) ==
    [kind |-> "boolean", on |-> on, removeDocs |-> "true", removeDevFiles |-> "true",
     removeSourceMaps |-> "true", customRules |-> {}]
OmittedCleanup ==
    [kind |-> "undefined", on |-> FALSE, removeDocs |-> "undefined",
     removeDevFiles |-> "undefined", removeSourceMaps |-> "undefined", customRules |-> {}]
ConfigCleanup(docs, dev, maps, rules) ==
    [kind |-> "config", on |-> TRUE, removeDocs |-> docs, removeDevFiles |-> dev,
     removeSourceMaps |-> maps, customRules |-> rules]

\* the truthiness of this.options.cleanup
cleanupRequested(cleanup) == cleanup.kind = "config" \/ cleanup.on

----------------------------------------------------------------------------
(* The calls examined *)

Callers == {1, 2}
Dirs == {"dA", "dB"}

\* process.platform and process.arch of the host running the injector
HostPlatform == "linux"
HostArch == "x64"

\* RuntimeOptions as the caller passes them; "" stands for an omitted string
Options(type, version, platform, arch, dir, cleanup) ==
    [type |-> type, version |-> version, platform |-> platform, arch |-> arch,
     targetDir |-> dir, cleanup |-> cleanup]

Requests ==
    { Options("", "", "", "", "dA", OmittedCleanup),
      Options("node", "v22.12.0", "linux", "x64", "dA", BoolCleanup(FALSE)),
      Options("node", "", "win32", "x64", "dA",
              ConfigCleanup("false", "undefined", "true", {"*"})),
      Options("node", "", "win32", "x64", "dB", OmittedCleanup),
      Options("bun", "", "darwin", "arm64", "dB",
              ConfigCleanup("true", "true", "true", {"*"})),
      Options("uv", "", "linux", "x64", "dB", OmittedCleanup),
      Options("ripgrep", "", "linux", "x64", "dB", OmittedCleanup),
      Options("ripgrep", "14.1.0", "linux", "x64", "dB", OmittedCleanup),
      Options("ripgrep", "", "win32", "x86", "dB", OmittedCleanup),
      Options("python", "", "linux", "arm64", "dB", OmittedCleanup),
      Options("deno", "v2.0.0", "linux", "x64", "dB", OmittedCleanup) }

\* the constructor with an unknown kind falling back to the node entry
ConstructorDefaultsToNode(options) ==
    LET runtimeType == IF options.type \in RuntimeTypes THEN options.type ELSE "node"
        platform == IF options.platform = "" THEN HostPlatform ELSE options.platform
    IN  Ok([type |-> runtimeType,
            version |-> IF options.version = ""
                        THEN DEFAULT_VERSIONS[runtimeType] ELSE options.version,
            platform |-> platform,
            arch |-> IF options.arch = "" THEN HostArch ELSE options.arch,
            targetDir |-> options.targetDir,
            cleanup |-> IF options.cleanup.kind = "undefined"
                        THEN BoolCleanup(TRUE) ELSE options.cleanup,
            executablePath |-> getExecutablePath(runtimeType, platform)])

\* the constructor of RuntimeInjector: defaults applied, executable path derived
Constructor(options) ==
    LET runtimeType == IF options.type = "" THEN "node" ELSE options.type
        platform == IF options.platform = "" THEN HostPlatform ELSE options.platform
    IN  IF runtimeType \notin RuntimeTypes THEN Throw("TypeError")
        ELSE Ok([type |-> runtimeType,
                 version |-> IF options.version = ""
                             THEN DEFAULT_VERSIONS[runtimeType] ELSE options.version,
                 platform |-> platform,
                 arch |-> IF options.arch = "" THEN HostArch ELSE options.arch,
                 targetDir |-> options.targetDir,
                 cleanup |-> IF options.cleanup.kind = "undefined"
                             THEN BoolCleanup(TRUE) ELSE options.cleanup,
                 executablePath |-> getExecutablePath(runtimeType, platform)])

NoInfo ==
    [type |-> "", version |-> "", platform |-> "", arch |-> "", targetDir |-> "dA",
     cleanup |-> BoolCleanup(FALSE), executablePath |-> <<>>]

\* a caller with no inject call in progress
Idle ==
    [pc |-> "idle", options |-> Options("", "", "", "", "dA", OmittedCleanup),
     info |-> NoInfo, url |-> "", ext |-> "", requested |-> FALSE, result |-> "",
     at |-> "", probe |-> "", ran |-> Throw("NotRun"),
     before |-> {}, existed |-> FALSE]

NoPrev == [options |-> Idle.options, result |-> "", requested |-> FALSE, failed |-> FALSE]

EmptyTemp == [exists |-> FALSE, extracted |-> FALSE, archives |-> {}, scratch |-> {}]

NoQuery == [op |-> "none"]

Active(c) == call[c].pc \notin {"idle"}

\* the call of caller c ends with the given result
Finish(c, result) ==
    call' = [call EXCEPT ![c].pc = "done", ![c].result = result, ![c].at = call[c].pc]

\* an environment fault may still be injected
MayFault == nfaults < MaxFaults

----------------------------------------------------------------------------
(* The steps of new RuntimeInjector(options).inject() *)

\* new RuntimeInjector(options), then inject() up to its first await
Start(c) ==
    /\ call[c].pc = "idle"
    /\ ncalls < MaxCalls
    /\ \E o \in Requests :
        LET made == Constructor(o)
        IN  /\ IF concurrent
               THEN \A other \in Callers \ {c} :
                        Active(other) =>
                            /\ call[other].options.type # o.type
                            /\ call[other].options.targetDir # o.targetDir
               ELSE c = 1 /\ \A other \in Callers : ~Active(other)
            /\ call' = [call EXCEPT ![c] =
                    [pc |-> IF IsOk(made) THEN "ensureDir" ELSE "done",
                     options |-> o,
                     info |-> IF IsOk(made) THEN made.val ELSE NoInfo,
                     url |-> "", ext |-> "", requested |-> FALSE,
                     result |-> IF IsOk(made) THEN "" ELSE made.val,
                     at |-> IF IsOk(made) THEN "" ELSE "constructor",
                     probe |-> "", ran |-> Throw("NotRun"),
                     before |-> target[o.targetDir],
                     existed |-> dirExists[o.targetDir]]]
    /\ ncalls' = ncalls + 1
    /\ UNCHANGED <<target, dirExists, temp, prev, nfaults, concurrent, qin, qout>>

\* await fs.ensureDir(targetDir)
EnsureDir(c) ==
    /\ call[c].pc = "ensureDir"
    /\ dirExists' = [dirExists EXCEPT ![call[c].info.targetDir] = TRUE]
    /\ call' = [call EXCEPT ![c].pc = "probe"]
    /\ UNCHANGED <<target, temp, prev, ncalls, nfaults, concurrent, qin, qout>>

\* the probe step without the early return
ProbeNoReturn(c) ==
    /\ call[c].pc = "probe"
    /\ LET info == call[c].info
           files == target[info.targetDir]
       IN  \E run \in IF probeRunsExecutable(files, info)
                      THEN RunOutcomes(files, info.executablePath)
                      ELSE {Throw("NotRun")} :
              call' = [call EXCEPT ![c].pc = "resolve", ![c].ran = run,
                            ![c].probe = IF isAlreadyInstalled(files, info, run)
                                         THEN "hit" ELSE "miss"]
    /\ UNCHANGED <<target, dirExists, temp, prev, ncalls, nfaults, concurrent, qin, qout>>

\* if (await this.isAlreadyInstalled()) return
Probe(c) ==
    /\ call[c].pc = "probe"
    /\ LET info == call[c].info
           files == target[info.targetDir]
       IN  \E run \in IF probeRunsExecutable(files, info)
                      THEN RunOutcomes(files, info.executablePath)
                      ELSE {Throw("NotRun")} :
              IF isAlreadyInstalled(files, info, run)
              THEN call' = [call EXCEPT ![c].pc = "done", ![c].result = "skipped",
                                        ![c].at = "probe", ![c].probe = "hit",
                                        ![c].ran = run]
              ELSE call' = [call EXCEPT ![c].pc = "resolve", ![c].probe = "miss",
                                        ![c].ran = run]
    /\ UNCHANGED <<target, dirExists, temp, prev, ncalls, nfaults, concurrent, qin, qout>>

\* getDownloadUrl, getFileExtension, await fs.ensureDir(tempDir)
Resolve(c) ==
    /\ call[c].pc = "resolve"
    /\ LET info == call[c].info
           downloadUrl == getDownloadUrl(info.type, info.version, info.platform, info.arch)
           fileExtension == getFileExtension(info.type, info.platform, info.arch)
       IN  IF ~IsOk(downloadUrl)
           THEN Finish(c, downloadUrl.val) /\ temp' = temp
           ELSE IF ~IsOk(fileExtension)
           THEN Finish(c, fileExtension.val) /\ temp' = temp
           ELSE /\ call' = [call EXCEPT ![c].pc = "download", ![c].url = downloadUrl.val,
                                        ![c].ext = fileExtension.val]
                /\ temp' = [temp EXCEPT !.exists = TRUE]
    /\ UNCHANGED <<target, dirExists, prev, ncalls, nfaults, concurrent, qin, qout>>

\* the archive's name in the temp directory
fileName(c) == call[c].info.type \o "-" \o call[c].info.version \o "." \o call[c].ext

\* a file of the temp directory replaced
WriteArchive(archives, name, content) ==
    {a \in archives : a.path # <<name>>} \cup {File(<<name>>, content, "644")}

\* await this.downloadFile(downloadUrl, downloadPath): the response is streamed to disk
Download(c) ==
    /\ call[c].pc = "download"
    /\ temp' = [temp EXCEPT !.exists = TRUE,
                            !.archives = WriteArchive(@, fileName(c), call[c].url)]
    /\ call' = [call EXCEPT ![c].pc = "emptyDir", ![c].requested = TRUE]
    /\ UNCHANGED <<target, dirExists, prev, ncalls, nfaults, concurrent, qin, qout>>

\* downloadFile failing in an inject that empties the target directory before
\* the download
DownloadFailsTargetEmptied(c) ==
    /\ call[c].pc = "download"
    /\ MayFault
    /\ temp' = [temp EXCEPT !.exists = TRUE,
                            !.archives = WriteArchive(@, fileName(c), "")]
    /\ target' = [target EXCEPT ![call[c].info.targetDir] = {}]
    /\ call' = [call EXCEPT ![c].pc = "done", ![c].requested = TRUE,
                            ![c].result = "DownloadFailure", ![c].at = "download"]
    /\ nfaults' = nfaults + 1
    /\ UNCHANGED <<dirExists, prev, ncalls, concurrent, qin, qout>>

\* downloadFile when the request or the stream fails: the write stream has
\* created the file, the body never arrived
DownloadFails(c) ==
    /\ call[c].pc = "download"
    /\ MayFault
    /\ temp' = [temp EXCEPT !.exists = TRUE,
                            !.archives = WriteArchive(@, fileName(c), "")]
    /\ call' = [call EXCEPT ![c].pc = "done", ![c].requested = TRUE,
                            ![c].result = "DownloadFailure", ![c].at = "download"]
    /\ nfaults' = nfaults + 1
    /\ UNCHANGED <<target, dirExists, prev, ncalls, concurrent, qin, qout>>

\* the step with ensureDir in place of emptyDir: the old files stay
EmptyDirSkipped(c) ==
    /\ call[c].pc = "emptyDir"
    /\ dirExists' = [dirExists EXCEPT ![call[c].info.targetDir] = TRUE]
    /\ call' = [call EXCEPT ![c].pc = "extract"]
    /\ UNCHANGED <<target, temp, prev, ncalls, nfaults, concurrent, qin, qout>>

\* the step emptying the target directory of everything but its marker files
EmptyDirKeepsMarkers(c) ==
    /\ call[c].pc = "emptyDir"
    /\ target' = [target EXCEPT ![call[c].info.targetDir] =
            {e \in @ : Len(e.path) = 1
                        /\ \E t \in RuntimeTypes : StartsWith(e.path[1], t \o "_")}]
    /\ dirExists' = [dirExists EXCEPT ![call[c].info.targetDir] = TRUE]
    /\ call' = [call EXCEPT ![c].pc = "extract"]
    /\ UNCHANGED <<temp, prev, ncalls, nfaults, concurrent, qin, qout>>

\* await fs.emptyDir(targetDir)
EmptyDir(c) ==
    /\ call[c].pc = "emptyDir"
    /\ target' = [target EXCEPT ![call[c].info.targetDir] = {}]
    /\ dirExists' = [dirExists EXCEPT ![call[c].info.targetDir] = TRUE]
    /\ call' = [call EXCEPT ![c].pc = "extract"]
    /\ UNCHANGED <<temp, prev, ncalls, nfaults, concurrent, qin, qout>>

\* the archive this call downloaded is in the temp directory, complete
ArchiveReady(c) ==
    File(<<fileName(c)>>, call[c].url, "644") \in temp.archives

\* files written over those of the same path
Overwrite(files, new) ==
    {e \in files : \A n \in new : n.path # e.path} \cup new

\* ensureDir(extracted), then extractZip / extractTarGz into it
Extract(c) ==
    /\ call[c].pc = "extract"
    /\ LET info == call[c].info
           id == resolve(info.type, info.platform, info.arch).val
       IN  IF ~ArchiveReady(c)
           THEN /\ Finish(c, "ExtractionFailure")
                /\ temp' = [temp EXCEPT !.exists = TRUE, !.extracted = TRUE]
           ELSE \E layout \in Layouts :
                /\ temp' = [temp EXCEPT !.exists = TRUE, !.extracted = TRUE,
                        !.scratch = Overwrite(@, ArchiveFiles(info.type, info.version,
                                        info.platform, id, call[c].url, layout))]
                /\ call' = [call EXCEPT ![c].pc = "normalize"]
    /\ UNCHANGED <<target, dirExists, prev, ncalls, nfaults, concurrent, qin, qout>>

\* the extraction fails after it has written the archive's files
ExtractFails(c) ==
    /\ call[c].pc = "extract"
    /\ MayFault
    /\ ArchiveReady(c)
    /\ LET info == call[c].info
           id == resolve(info.type, info.platform, info.arch).val
       IN  \E layout \in Layouts :
              temp' = [temp EXCEPT !.exists = TRUE, !.extracted = TRUE,
                        !.scratch = Overwrite(@, ArchiveFiles(info.type, info.version,
                                        info.platform, id, call[c].url, layout))]
    /\ Finish(c, "ExtractionFailure")
    /\ nfaults' = nfaults + 1
    /\ UNCHANGED <<target, dirExists, prev, ncalls, concurrent, qin, qout>>

\* await this.config.extractFiles(extractedDir, targetDir, version, platform, arch)
Normalize(c) ==
    /\ call[c].pc = "normalize"
    /\ LET info == call[c].info
           d == info.targetDir
       IN  IF ~temp.extracted
           THEN Finish(c, "ENOENT") /\ UNCHANGED <<target, temp>>
           ELSE \E first \in FirstChoices(info.type, temp.scratch, info.platform) :
                LET r == extractFiles(info.type, temp.scratch, target[d], info.version,
                                      info.platform, info.arch, first)
                IN  /\ temp' = [temp EXCEPT !.scratch = r.scratch]
                    /\ target' = [target EXCEPT ![d] = r.target]
                    /\ IF IsOk(r.res)
                       THEN call' = [call EXCEPT ![c].pc = "chmod"]
                       ELSE Finish(c, r.res.val)
    /\ UNCHANGED <<dirExists, prev, ncalls, nfaults, concurrent, qin, qout>>

\* the files directly inside bin/, which inject makes executable for node and python
BinFiles(files) == {e \in files : Len(e.path) = 2 /\ e.path[1] = "bin"}

\* the permission fix-up that makes only the primary executable executable
fixPermissionsExecOnly(files, info) ==
    IF info.platform = "win32" THEN files
    ELSE Chmod755(files, info.executablePath)

\* the permission fix-up of inject on the files of the target directory
fixPermissions(files, info) ==
    IF info.platform = "win32" THEN files
    ELSE LET f1 == Chmod755(files, info.executablePath)
             f2 == IF info.type = "uv" THEN Chmod755(f1, <<"uvx">>) ELSE f1
         IN  IF info.type \in {"node", "python"}
             THEN {IF e \in BinFiles(f2) THEN [e EXCEPT !.mode = "755"] ELSE e : e \in f2}
             ELSE f2

\* Set executable permissions for non-Windows platforms
Permissions(c) ==
    /\ call[c].pc = "chmod"
    /\ target' = [target EXCEPT ![call[c].info.targetDir] = fixPermissions(@, call[c].info)]
    /\ call' = [call EXCEPT ![c].pc = "marker"]
    /\ UNCHANGED <<dirExists, temp, prev, ncalls, nfaults, concurrent, qin, qout>>

\* the marker file of a call
markerOf(info) ==
    File(<<markerName(info.type, info.platform, info.arch)>>, info.version, "644")

\* await fs.writeFile(markerFile, version)
WriteMarker(c) ==
    /\ call[c].pc = "marker"
    /\ target' = [target EXCEPT ![call[c].info.targetDir] =
                        Overwrite(@, {markerOf(call[c].info)})]
    /\ call' = [call EXCEPT ![c].pc = "cleanup"]
    /\ UNCHANGED <<dirExists, temp, prev, ncalls, nfaults, concurrent, qin, qout>>

\* the cleanup step run for every kind
CleanupAnyKind(c) ==
    /\ call[c].pc = "cleanup"
    /\ LET info == call[c].info
       IN  target' = [target EXCEPT ![info.targetDir] =
                IF cleanupRequested(info.cleanup)
                THEN cleanupRuntime(@, info.platform, info.cleanup) ELSE @]
    /\ call' = [call EXCEPT ![c].pc = "removeTemp"]
    /\ UNCHANGED <<dirExists, temp, prev, ncalls, nfaults, concurrent, qin, qout>>

\* if (this.options.cleanup && type === "node") await this.cleanupRuntime(cleanupConfig)
Cleanup(c) ==
    /\ call[c].pc = "cleanup"
    /\ LET info == call[c].info
       IN  target' = [target EXCEPT ![info.targetDir] =
                IF cleanupRequested(info.cleanup) /\ info.type = "node"
                THEN cleanupRuntime(@, info.platform, info.cleanup) ELSE @]
    /\ call' = [call EXCEPT ![c].pc = "removeTemp"]
    /\ UNCHANGED <<dirExists, temp, prev, ncalls, nfaults, concurrent, qin, qout>>

\* await fs.remove(tempDir)
RemoveTemp(c) ==
    /\ call[c].pc = "removeTemp"
    /\ temp' = EmptyTemp
    /\ Finish(c, "ok")
    /\ UNCHANGED <<target, dirExists, prev, ncalls, nfaults, concurrent, qin, qout>>

\* a filesystem primitive of inject throws (emptyDir, chmod, writeFile, remove)
\* and leaves the disk as it was
FsFault(c) ==
    /\ call[c].pc \in {"emptyDir", "chmod", "marker", "removeTemp"}
    /\ MayFault
    /\ Finish(c, "IOError")
    /\ nfaults' = nfaults + 1
    /\ UNCHANGED <<target, dirExists, temp, prev, ncalls, concurrent, qin, qout>>

\* inject returns or rethrows to its caller
Return(c) ==
    /\ call[c].pc = "done"
    /\ prev' = [options |-> call[c].options, result |-> call[c].result,
                requested |-> call[c].requested,
                failed |-> prev.failed \/ call[c].result \notin {"ok", "skipped"}]
    /\ call' = [call EXCEPT ![c] = Idle]
    /\ UNCHANGED <<target, dirExists, temp, ncalls, nfaults, concurrent, qin, qout>>

Step(c) ==
    \/ Start(c)
    \/ EnsureDir(c)
    \/ Probe(c)
    \/ Resolve(c)
    \/ Download(c)
    \/ DownloadFails(c)
    \/ EmptyDir(c)
    \/ Extract(c)
    \/ ExtractFails(c)
    \/ Normalize(c)
    \/ Permissions(c)
    \/ WriteMarker(c)
    \/ Cleanup(c)
    \/ RemoveTemp(c)
    \/ FsFault(c)
    \/ Return(c)

Next == \E c \in Callers : Step(c)

\* no directory on disk, no call in progress
InitMain(conc) ==
    /\ target = [d \in Dirs |-> {}]
    /\ dirExists = [d \in Dirs |-> FALSE]
    /\ temp = EmptyTemp
    /\ call = [c \in Callers |-> Idle]
    /\ prev = NoPrev
    /\ ncalls = 0
    /\ nfaults = 0
    /\ concurrent = conc

\* inject calls made one after the other
Init == InitMain(FALSE) /\ qin = NoQuery /\ qout = NoQuery
Spec == Init /\ [][Next]_vars

\* inject calls for different kinds and directories made with Promise.all
InitConc == InitMain(TRUE) /\ qin = NoQuery /\ qout = NoQuery
SpecConc == InitConc /\ [][Next]_vars

----------------------------------------------------------------------------
(* The pure functions applied to drawn inputs *)

Platforms == {"darwin", "linux", "win32", "freebsd", "android"}

Archs ==
    {"x64", "x86_64", "x86", "ia32", "arm64", "arm", "armv7l", "ppc64", "ppc64le",
     "s390", "s390x", "riscv64", "arm64-musl", "x64-musl", "x86_64-musl", "x86-musl",
     "ia32-musl", "arm-musl", "armv7-musl", "mips", "loong64", "riscv64-musl"}

\* the (type, platform, arch) triples of testConfigs in test-downloads.js
testConfigs ==
    ({"node"} \X {"win32"} \X {"x64", "x86", "arm64"})
    \cup ({"node"} \X {"darwin"} \X {"x64", "arm64"})
    \cup ({"node"} \X {"linux"} \X {"x64", "arm64", "armv7l", "ppc64le", "s390x"})
    \cup ({"bun"} \X {"win32"} \X {"x64"})
    \cup ({"bun"} \X {"darwin", "linux"} \X {"x64", "arm64"})
    \cup ({"uv"} \X {"win32"} \X {"x64", "x86", "arm64"})
    \cup ({"uv"} \X {"darwin"} \X {"x64", "arm64"})
    \cup ({"uv"} \X {"linux"} \X {"x64", "x86", "arm64", "armv7l", "ppc64", "ppc64le",
                                  "s390x", "riscv64", "x64-musl", "x86-musl", "arm64-musl",
                                  "arm-musl", "armv7-musl"})
    \cup ({"ripgrep"} \X {"win32", "darwin", "linux"} \X {"x64", "arm64"})

ResolveInputs ==
    {[op |-> "resolve", type |-> t, platform |-> p, arch |-> a] :
        t \in RuntimeTypes, p \in Platforms, a \in Archs}

\* the platform resolver of the kind applied to (platform, arch)
DoResolve ==
    /\ qin.op = "resolve"
    /\ qout = NoQuery
    /\ qout' = [op |-> "resolve", res |-> resolve(qin.type, qin.platform, qin.arch)]
    /\ UNCHANGED <<mainVars, qin>>

\* the test script's own table and resolvers (test-downloads.js)
test_RIPGREP_PLATFORM ==
    [k \in {"x64-win32", "arm64-win32", "x64-linux", "arm64-linux", "x64-darwin",
            "arm64-darwin"} |->
        CASE k = "x64-win32"    -> [target |-> "x86_64-pc-windows-msvc", ext |-> "zip"]
          [] k = "arm64-win32"  -> [target |-> "aarch64-pc-windows-msvc", ext |-> "zip"]
          [] k = "x64-linux"    -> [target |-> "x86_64-unknown-linux-musl", ext |-> "tar.gz"]
          [] k = "arm64-linux"  -> [target |-> "aarch64-unknown-linux-gnu", ext |-> "tar.gz"]
          [] k = "x64-darwin"   -> [target |-> "x86_64-apple-darwin", ext |-> "tar.gz"]
          [] k = "arm64-darwin" -> [target |-> "aarch64-apple-darwin", ext |-> "tar.gz"]]

test_getNodePlatformIdentifier(platform, arch) ==
    IF platform = "darwin" THEN
        Ok(IF arch = "arm64" THEN "darwin-arm64" ELSE "darwin-x64")
    ELSE IF platform = "linux" THEN
        Ok(IF arch = "arm64" THEN "linux-arm64"
           ELSE IF arch = "arm" \/ arch = "armv7l" THEN "linux-armv7l"
           ELSE IF arch = "ppc64" \/ arch = "ppc64le" THEN "linux-ppc64le"
           ELSE IF arch = "s390" \/ arch = "s390x" THEN "linux-s390x"
           ELSE "linux-x64")
    ELSE IF platform = "win32" THEN
        Ok(IF arch = "arm64" THEN "win-arm64"
           ELSE IF arch = "ia32" \/ arch = "x86" THEN "win-x86"
           ELSE "win-x64")
    ELSE Throw("UnsupportedPlatform")

\* the test script's bun resolver without the arm64 builds
test_getBunPlatformIdentifierNoArm(platform, arch) ==
    IF platform = "darwin" THEN Ok("darwin-x64")
    ELSE IF platform = "linux" THEN Ok("linux-x64")
    ELSE IF platform = "win32" THEN Ok("windows-x64")
    ELSE Throw("UnsupportedPlatform")

test_getBunPlatformIdentifier(platform, arch) ==
    IF platform = "darwin" THEN
        Ok(IF arch = "arm64" THEN "darwin-aarch64" ELSE "darwin-x64")
    ELSE IF platform = "linux" THEN
        Ok(IF arch = "arm64" THEN "linux-aarch64" ELSE "linux-x64")
    ELSE IF platform = "win32" THEN
        Ok(IF arch = "arm64" THEN "windows-aarch64" ELSE "windows-x64")
    ELSE Throw("UnsupportedPlatform")

test_getUvPlatformIdentifier(platform, arch) ==
    IF platform = "darwin" THEN
        Ok(IF arch = "arm64" THEN "aarch64-apple-darwin" ELSE "x86_64-apple-darwin")
    ELSE IF platform = "linux" THEN
        Ok(IF arch = "arm64" THEN "aarch64-unknown-linux-gnu"
           ELSE IF arch = "x64" \/ arch = "x86_64" THEN "x86_64-unknown-linux-gnu"
           ELSE IF arch = "x86" \/ arch = "ia32" THEN "i686-unknown-linux-gnu"
           ELSE IF arch = "arm" \/ arch = "armv7l" THEN "armv7-unknown-linux-gnueabihf"
           ELSE IF arch = "ppc64" THEN "powerpc64-unknown-linux-gnu"
           ELSE IF arch = "ppc64le" THEN "powerpc64le-unknown-linux-gnu"
           ELSE IF arch = "s390x" THEN "s390x-unknown-linux-gnu"
           ELSE IF arch = "riscv64" THEN "riscv64gc-unknown-linux-gnu"
           ELSE IF arch = "arm64-musl" THEN "aarch64-unknown-linux-musl"
           ELSE IF arch = "x64-musl" \/ arch = "x86_64-musl" THEN "x86_64-unknown-linux-musl"
           ELSE IF arch = "x86-musl" \/ arch = "ia32-musl" THEN "i686-unknown-linux-musl"
           ELSE IF arch = "arm-musl" THEN "arm-unknown-linux-musleabihf"
           ELSE IF arch = "armv7-musl" THEN "armv7-unknown-linux-musleabihf"
           ELSE "x86_64-unknown-linux-gnu")
    ELSE IF platform = "win32" THEN
        Ok(IF arch = "arm64" THEN "aarch64-pc-windows-msvc"
           ELSE IF arch = "x86" \/ arch = "ia32" THEN "i686-pc-windows-msvc"
           ELSE "x86_64-pc-windows-msvc")
    ELSE Throw("UnsupportedPlatform")

\* generateDownloadUrl(type, platform, arch, version) of the test script
generateDownloadUrl(type, platform, arch, version) ==
    IF type = "node" THEN
        LET platformId == test_getNodePlatformIdentifier(platform, arch)
            fileExtension == IF platform = "win32" THEN "zip" ELSE "tar.gz"
        IN  IF ~IsOk(platformId) THEN platformId
            ELSE Ok("https://nodejs.org/dist/" \o version \o "/" \o "node-" \o version
                    \o "-" \o platformId.val \o "." \o fileExtension)
    ELSE IF type = "bun" THEN
        LET platformId == test_getBunPlatformIdentifier(platform, arch)
        IN  IF ~IsOk(platformId) THEN platformId
            ELSE Ok("https://github.com/oven-sh/bun/releases/download/bun-" \o version
                    \o "/" \o "bun-" \o platformId.val \o ".zip")
    ELSE IF type = "uv" THEN
        LET platformId == test_getUvPlatformIdentifier(platform, arch)
            fileExtension == IF platform = "win32" THEN "zip" ELSE "tar.gz"
        IN  IF ~IsOk(platformId) THEN platformId
            ELSE Ok("https://github.com/astral-sh/uv/releases/download/" \o version
                    \o "/" \o "uv-" \o platformId.val \o "." \o fileExtension)
    ELSE IF type = "ripgrep" THEN
        LET platformKey == arch \o "-" \o platform
        IN  IF platformKey \notin DOMAIN test_RIPGREP_PLATFORM
            THEN Throw("UnsupportedPlatform")
            ELSE LET platformConfig == test_RIPGREP_PLATFORM[platformKey]
                 IN  Ok("https://github.com/BurntSushi/ripgrep/releases/download/"
                        \o version \o "/" \o "ripgrep-" \o version \o "-"
                        \o platformConfig.target \o "." \o platformConfig.ext)
    ELSE Throw("UnknownRuntimeType")

\* the strings of at most n characters over the alphabet
RECURSIVE Strings(_, _)
Strings(alphabet, n) ==
    IF n = 0 THEN {""}
    ELSE LET shorter == Strings(alphabet, n - 1)
         IN  shorter \cup {s \o a : s \in shorter, a \in alphabet}

VersionChars == {"v", "1", "+"}

\* requested versions: never empty, the constructor substitutes the default
VersionStrings == Strings(VersionChars, MaxLen) \ {""}

\* the versions a URL is built for: the default versions and the drawn strings
UrlVersions == {DEFAULT_VERSIONS[t] : t \in RuntimeTypes} \cup VersionStrings

UrlInputs ==
    {[op |-> o, type |-> t, version |-> v, platform |-> p, arch |-> a] :
        o \in {"url", "testUrl"}, t \in RuntimeTypes, v \in UrlVersions,
        p \in Platforms, a \in Archs}

ExtInputs ==
    {[op |-> "ext", type |-> t, platform |-> p, arch |-> a] :
        t \in RuntimeTypes, p \in Platforms, a \in Archs}

\* RUNTIME_CONFIGS[type].getDownloadUrl applied to (version, platform, arch)
DoUrl ==
    /\ qin.op = "url"
    /\ qout = NoQuery
    /\ qout' = [op |-> "url",
                res |-> getDownloadUrl(qin.type, qin.version, qin.platform, qin.arch)]
    /\ UNCHANGED <<mainVars, qin>>

\* RUNTIME_CONFIGS[type].getFileExtension applied to (platform, arch)
DoExt ==
    /\ qin.op = "ext"
    /\ qout = NoQuery
    /\ qout' = [op |-> "ext", res |-> getFileExtension(qin.type, qin.platform, qin.arch)]
    /\ UNCHANGED <<mainVars, qin>>

\* the test script's generateDownloadUrl applied to (type, platform, arch, version)
DoTestUrl ==
    /\ qin.op = "testUrl"
    /\ qout = NoQuery
    /\ qout' = [op |-> "testUrl",
                res |-> generateDownloadUrl(qin.type, qin.platform, qin.arch, qin.version)]
    /\ UNCHANGED <<mainVars, qin>>

NextResolve == DoResolve \/ DoUrl \/ DoExt \/ DoTestUrl

InitResolve ==
    /\ InitMain(FALSE)
    /\ \/ qin \in ResolveInputs
       \/ qin \in UrlInputs
       \/ qin \in ExtInputs
    /\ qout = NoQuery
SpecResolve == InitResolve /\ [][NextResolve]_vars

\* what the version check may print, with and without the final newline
OutputStrings ==
    LET body == Strings(VersionChars, MaxLen)
    IN  body \cup {b \o "\n" : b \in body}

CompareInputs ==
    {[op |-> "compare", type |-> t, version |-> v, stdout |-> o] :
        t \in RuntimeTypes, v \in VersionStrings, o \in OutputStrings}

\* the comparison of isAlreadyInstalled applied to (type, version, stdout)
DoCompare ==
    /\ qin.op = "compare"
    /\ qout = NoQuery
    /\ qout' = [op |-> "compare", res |-> versionMatches(qin.type, qin.version, qin.stdout)]
    /\ UNCHANGED <<mainVars, qin>>

InitProbe == InitMain(FALSE) /\ qin \in CompareInputs /\ qout = NoQuery
SpecProbe == InitProbe /\ [][DoCompare]_vars

----------------------------------------------------------------------------
(* Properties of the pipeline *)

Done(c) == call[c].pc = "done"
Succeeded(c) == Done(c) /\ call[c].result \in {"ok", "skipped"}
Failed(c) == Done(c) /\ call[c].result \notin {"ok", "skipped"}
dirOf(c) == call[c].options.targetDir
markerPath(c) == <<markerName(call[c].info.type, call[c].info.platform, call[c].info.arch)>>

\* C1: two concurrent inject calls for different kinds and directories do not
\* interfere: the archive a call has downloaded stays in the temp directory
\* until that call extracts it, and the scratch directory it extracted into
\* is there when it normalizes.
C1_ConcurrentCallsIsolated ==
    \A c \in Callers :
        /\ call[c].pc \in {"emptyDir", "extract"} => ArchiveReady(c)
        /\ call[c].pc = "normalize" => temp.extracted

\* C2 as stated: a second call with the options of a first, successful call
\* makes no network request and leaves the target directory as it was.
C2_SecondCallNeverDownloads ==
    \A c \in Callers :
        (Active(c) /\ prev.options = call[c].options /\ prev.result = "ok")
            => /\ ~call[c].requested
               /\ Done(c) => target[dirOf(c)] = call[c].before

\* C2 amended: a call whose probe answers 'installed' returns at once, makes no
\* network request and leaves the target directory as it was; when it repeats
\* a successful install with the same options, the one download of the first
\* call is the only one.
C2_SkipWhenProbeSucceeds ==
    \A c \in Callers :
        call[c].probe = "hit"
            => /\ Done(c) /\ call[c].result = "skipped"
               /\ ~call[c].requested
               /\ call[c].url = ""
               /\ target[dirOf(c)] = call[c].before
               /\ (prev.options = call[c].options /\ prev.result = "ok") => prev.requested

C2_Witness ==
    \E c \in Callers :
        /\ Done(c) /\ call[c].probe = "hit"
        /\ prev.options = call[c].options /\ prev.result = "ok" /\ prev.requested

C4_InstallLeavesMarkerAndNoTemp ==
    \A c \in Callers :
        (Done(c) /\ call[c].result = "ok")
            => /\ markerOf(call[c].info) \in target[dirOf(c)]
               /\ temp = EmptyTemp

\* C5: after an install that returned successfully the primary executable is
\* at its documented path in the target directory.
C5_PrimaryExecutableInstalled ==
    \A c \in Callers :
        (Done(c) /\ call[c].result = "ok")
            => \E e \in target[dirOf(c)] : e.path = call[c].info.executablePath

\* the (os, arch) pair of the call has no platform token for its kind
UnsupportedPair(c) ==
    /\ call[c].info.type \in RuntimeTypes
    /\ ~IsOk(resolve(call[c].info.type, call[c].info.platform, call[c].info.arch))

UnknownKind(c) == Active(c) /\ call[c].options.type \notin RuntimeTypes \cup {""}

RipgrepOffTable(c) ==
    /\ Active(c)
    /\ call[c].info.type = "ripgrep"
    /\ (call[c].info.arch \o "-" \o call[c].info.platform) \notin RipgrepKeys

\* C7: for ripgrep every (os, arch) whose key arch-os is not one of the six
\* table entries fails with UnsupportedPlatform, without a fallback token and
\* before any network request.
C7_RipgrepOffTableFailsBeforeNetwork ==
    /\ \A c \in Callers :
            (Active(c) /\ call[c].info.type = "ripgrep" /\ call[c].pc = "resolve")
                => /\ Cardinality(RipgrepKeys) = 6
                   /\ \A p \in Platforms, a \in Archs :
                        (a \o "-" \o p) \notin RipgrepKeys
                            => getDownloadUrl("ripgrep", call[c].info.version, p, a)
                                    = Throw("UnsupportedPlatform")
    /\ \A c \in Callers :
            RipgrepOffTable(c)
                => /\ ~call[c].requested
                   /\ call[c].url = ""
                   /\ call[c].pc \in {"ensureDir", "probe", "resolve", "done"}
                   /\ Done(c) => call[c].result = "UnsupportedPlatform"

C7_Witness ==
    \E c \in Callers :
        /\ RipgrepOffTable(c) /\ Done(c)
        /\ call[c].info.platform = "win32" /\ call[c].info.arch = "x86"
        /\ call[c].result = "UnsupportedPlatform"

\* the probe of the call met one of the conditions under which it must
\* answer 'not installed'
ProbeMissCase(c) ==
    LET files == call[c].before
        markers == {e \in files : e.path = markerPath(c)}
    IN  \/ markers = {}
        \/ \E e \in markers : e.content # call[c].info.version
        \/ \A e \in files : e.path # call[c].info.executablePath
        \/ ~IsOk(call[c].ran)
        \/ /\ IsOk(call[c].ran)
           /\ ~versionMatches(call[c].info.type, call[c].info.version, call[c].ran.val)

\* C8: the probe never fails the flow: a missing marker, a marker with another
\* version, a missing executable, a failing execution test or a version
\* output that does not match each make it answer 'not installed', no error
\* reaches the caller from the probe, and inject goes on to download.
C8_ProbeNeverFails ==
    \A c \in Callers :
        call[c].probe # ""
            => /\ call[c].at = "probe" => call[c].result = "skipped"
               /\ ProbeMissCase(c) => call[c].probe = "miss"
               /\ (call[c].probe = "miss" /\ Done(c) /\ ~UnsupportedPair(c))
                        => call[c].requested
               /\ call[c].probe = "miss"
                        => call[c].pc \in {"resolve", "download", "emptyDir", "extract",
                                           "normalize", "chmod", "marker", "cleanup",
                                           "removeTemp", "done"}

C8_Witness ==
    \E c \in Callers :
        /\ call[c].probe = "miss"
        /\ call[c].ran = Throw("ExecFailed")
        /\ call[c].requested /\ call[c].result = "ok"

\* the per-kind comparison rule as the specification states it
StripLeadingV(version) ==
    IF SubSeq(version, 1, 1) = "v" THEN SubSeq(version, 2, Len(version)) ELSE version

StatedMatch(type, version, stdout) ==
    LET output == Trim(stdout)
    IN  CASE type = "node"    -> output = version
          [] type = "bun"     -> Includes(output, StripLeadingV(version))
          [] type = "uv"      -> Includes(output, version)
          [] type = "ripgrep" -> Includes(output, version)
          [] type = "python"  -> Includes(output, SplitAt0(version, "+"))

\* C9: the probe accepts the version-check output by the per-kind rule: node
\* on equality, bun iff the output contains the version without its leading
\* 'v', uv and ripgrep iff it contains the version, python iff it contains
\* the part of the version before '+'.
C9_ComparisonRules ==
    qout.op = "compare" => qout.res = StatedMatch(qin.type, qin.version, qin.stdout)

\* C10: platform resolution returns a non-empty token or fails with
\* UnsupportedPlatform, and every triple of the test matrix resolves.
C10_ResolveTokenOrUnsupported ==
    qout.op = "resolve"
        => /\ \/ IsOk(qout.res) /\ Len(qout.res.val) > 0
              \/ qout.res = Throw("UnsupportedPlatform")
           /\ <<qin.type, qin.platform, qin.arch>> \in testConfigs => IsOk(qout.res)

C10_Witness ==
    /\ qout.op = "resolve"
    /\ qin.type = "python" /\ qin.platform = "linux" /\ qin.arch = "riscv64"
    /\ qout.res = Throw("UnsupportedPlatform")

\* the Linux architecture aliases of the uv resolver and their target triples
UvLinuxTriple ==
    [a \in {"arm64", "x64", "x86_64", "x86", "ia32", "arm", "armv7l", "ppc64", "ppc64le",
            "s390x", "riscv64", "arm64-musl", "x64-musl", "x86_64-musl", "x86-musl",
            "ia32-musl", "arm-musl", "armv7-musl"} |->
        CASE a = "arm64" -> "aarch64-unknown-linux-gnu"
          [] a \in {"x64", "x86_64"} -> "x86_64-unknown-linux-gnu"
          [] a \in {"x86", "ia32"} -> "i686-unknown-linux-gnu"
          [] a \in {"arm", "armv7l"} -> "armv7-unknown-linux-gnueabihf"
          [] a = "ppc64" -> "powerpc64-unknown-linux-gnu"
          [] a = "ppc64le" -> "powerpc64le-unknown-linux-gnu"
          [] a = "s390x" -> "s390x-unknown-linux-gnu"
          [] a = "riscv64" -> "riscv64gc-unknown-linux-gnu"
          [] a = "arm64-musl" -> "aarch64-unknown-linux-musl"
          [] a \in {"x64-musl", "x86_64-musl"} -> "x86_64-unknown-linux-musl"
          [] a \in {"x86-musl", "ia32-musl"} -> "i686-unknown-linux-musl"
          [] a = "arm-musl" -> "arm-unknown-linux-musleabihf"
          [] a = "armv7-musl" -> "armv7-unknown-linux-musleabihf"]

\* C11: the uv resolver on linux maps every architecture that is not a known
\* alias to x86_64-unknown-linux-gnu without error, and every known alias to
\* its own triple, a MUSL triple iff the alias ends in -musl; x64-musl gives
\* x86_64-unknown-linux-musl and the archive format tar.gz.
C11_UvLinuxAliasesAndFallback ==
    /\ (qout.op = "resolve" /\ qin.type = "uv" /\ qin.platform = "linux")
            => IF qin.arch \in DOMAIN UvLinuxTriple
               THEN /\ qout.res = Ok(UvLinuxTriple[qin.arch])
                    /\ EndsWith(qin.arch, "-musl") <=> Includes(qout.res.val, "-linux-musl")
                    /\ qin.arch = "x64-musl" => qout.res.val = "x86_64-unknown-linux-musl"
               ELSE qout.res = Ok("x86_64-unknown-linux-gnu")
    /\ (qout.op = "ext" /\ qin.type = "uv" /\ qin.platform = "linux")
            => qout.res = Ok("tar.gz")

C11_Witness ==
    /\ qout.op = "resolve" /\ qin.type = "uv" /\ qin.platform = "linux"
    /\ qin.arch = "riscv64-musl"
    /\ qout.res = Ok("x86_64-unknown-linux-gnu")

NodeToken(platform, arch) ==
    CASE platform = "darwin" -> IF arch = "arm64" THEN "darwin-arm64" ELSE "darwin-x64"
      [] platform = "linux" ->
            CASE arch = "arm64" -> "linux-arm64"
              [] arch \in {"arm", "armv7l"} -> "linux-armv7l"
              [] arch \in {"ppc64", "ppc64le"} -> "linux-ppc64le"
              [] arch \in {"s390", "s390x"} -> "linux-s390x"
              [] OTHER -> "linux-x64"
      [] platform = "win32" ->
            CASE arch = "arm64" -> "win-arm64"
              [] arch \in {"ia32", "x86"} -> "win-x86"
              [] OTHER -> "win-x64"

\* C13: the node resolver yields the listed token for darwin, linux and win32
\* and fails for any other os; the node URL is
\* https://nodejs.org/dist/{version}/node-{version}-{token}.{ext}; and the
\* test script's generateDownloadUrl equals the library's URL for every node,
\* bun, uv and ripgrep input.
C13_NodeUrlAndTestCopyAgree ==
    /\ (qout.op = "resolve" /\ qin.type = "node")
            => IF qin.platform \in {"darwin", "linux", "win32"}
               THEN qout.res = Ok(NodeToken(qin.platform, qin.arch))
               ELSE qout.res = Throw("UnsupportedPlatform")
    /\ (qout.op = "url" /\ qin.type = "node")
            => IF qin.platform \in {"darwin", "linux", "win32"}
               THEN qout.res = Ok("https://nodejs.org/dist/" \o qin.version \o "/node-"
                                  \o qin.version \o "-" \o NodeToken(qin.platform, qin.arch)
                                  \o "." \o (IF qin.platform = "win32" THEN "zip" ELSE "tar.gz"))
               ELSE qout.res = Throw("UnsupportedPlatform")
    /\ (qout.op = "url" /\ qin.type = "node" /\ qin.version = "v24.12.0"
            /\ qin.platform = "linux" /\ qin.arch = "x64")
            => qout.res = Ok("https://nodejs.org/dist/v24.12.0/node-v24.12.0-linux-x64.tar.gz")
    /\ (qout.op = "testUrl" /\ qin.type \in {"node", "bun", "uv", "ripgrep"})
            => qout.res = getDownloadUrl(qin.type, qin.version, qin.platform, qin.arch)

C13_Witness ==
    /\ qout.op = "testUrl" /\ qin.type = "bun"
    /\ qin.platform = "linux" /\ qin.arch = "arm64" /\ qin.version = "v1.3.5"
    /\ qout.res = Ok("https://github.com/oven-sh/bun/releases/download/bun-v1.3.5/bun-linux-aarch64.zip")

\* the archive format agrees with the extension of every URL built for the same input
ExtAgreesWithUrl ==
    \A v \in UrlVersions :
        LET url == getDownloadUrl(qin.type, v, qin.platform, qin.arch)
        IN  (IsOk(url) /\ IsOk(qout.res)) => EndsWith(url.val, "." \o qout.res.val)

\* the parts of the archive-format rule on which the code and the statement agree
ExtRuleOfOthers ==
    /\ qin.type \in {"node", "uv"}
            => qout.res = Ok(IF qin.platform = "win32" THEN "zip" ELSE "tar.gz")
    /\ qin.type = "python" => qout.res = Ok("tar.gz")
    /\ qin.type = "ripgrep"
            => LET key == qin.arch \o "-" \o qin.platform
               IN  IF key \in RipgrepKeys
                   THEN qout.res = Ok(RIPGREP_PLATFORM[key].ext)
                   ELSE qout.res = Throw("UnsupportedPlatform")

\* C14 as stated: node, bun and uv use zip on win32 and tar.gz on every other
\* os, python always tar.gz, ripgrep the ext of its table entry, and the
\* format agrees with the extension of the download URL.
C14_ArchiveFormatRule ==
    qout.op = "ext"
        => /\ ExtRuleOfOthers
           /\ qin.type = "bun"
                => qout.res = Ok(IF qin.platform = "win32" THEN "zip" ELSE "tar.gz")
           /\ ExtAgreesWithUrl

\* C14 amended: node and uv use zip on win32 and tar.gz on every other os, bun
\* always zip, python always tar.gz, ripgrep the ext of its table entry, and
\* the format agrees with the extension of the download URL.
C14_ArchiveFormatRuleBunZip ==
    qout.op = "ext"
        => /\ ExtRuleOfOthers
           /\ qin.type = "bun" => qout.res = Ok("zip")
           /\ ExtAgreesWithUrl

C14_Witness ==
    /\ qout.op = "ext" /\ qin.type = "bun" /\ qin.platform = "linux"
    /\ qout.res = Ok("zip")
    /\ EndsWith(getDownloadUrl("bun", "v1.3.5", "linux", qin.arch).val, ".zip")

\* all of the text after the first sep
AfterFirst(s, sep) ==
    LET i == IndexOf(s, sep)
    IN  SubSeq(s, i + Len(sep), Len(s))

\* C15: a python version is split on the first '+': the text before it is the
\* semantic version, all of the text after it the release date; without a
\* '+' the whole string is the semantic version and the release date is the
\* built-in default; the URL is
\* .../download/{date}/cpython-{semver}+{date}-{token}-install_only.tar.gz.
C15_PythonVersionSplit ==
    (qout.op = "url" /\ qin.type = "python" /\ IsOk(qout.res))
        => LET hasPlus == Includes(qin.version, "+")
               semver == IF hasPlus THEN SplitAt0(qin.version, "+") ELSE qin.version
               date == IF hasPlus THEN AfterFirst(qin.version, "+") ELSE "20250117"
               token == getPythonPlatformIdentifier(qin.platform, qin.arch).val
           IN  qout.res.val =
                    "https://github.com/astral-sh/python-build-standalone/releases/download/"
                    \o date \o "/cpython-" \o semver \o "+" \o date \o "-" \o token
                    \o "-install_only.tar.gz"

----------------------------------------------------------------------------
(* The proxy resolver *)

\* an optional string: a property that may be undefined
None == [some |-> FALSE, val |-> ""]
Some(v) == [some |-> TRUE, val |-> v]

\* the truthiness of an optional string
Truthy(o) == o.some /\ o.val # ""

LowerLetters == "abcdefghijklmnopqrstuvwxyz"
UpperLetters == "ABCDEFGHIJKLMNOPQRSTUVWXYZ"
Digits == "0123456789"

IsLetter(ch) == Includes(LowerLetters, ch) \/ Includes(UpperLetters, ch)
IsDigit(ch) == Includes(Digits, ch)

\* String.prototype.toLowerCase
RECURSIVE ToLowerCase(_)
ToLowerCase(s) ==
    IF s = "" THEN ""
    ELSE LET ch == SubSeq(s, 1, 1)
             i == IndexOf(UpperLetters, ch)
         IN  (IF i = 0 THEN ch ELSE SubSeq(LowerLetters, i, i))
                \o ToLowerCase(SubSeq(s, 2, Len(s)))

\* String.prototype.lastIndexOf, 1-based; 0 when sub does not occur in s
LastIndexOf(s, sub) ==
    LET at == {i \in 1..(Len(s) - Len(sub) + 1) : SubSeq(s, i, i + Len(sub) - 1) = sub}
    IN  IF at = {} THEN 0 ELSE CHOOSE i \in at : \A j \in at : j <= i

\* Number(digits)
RECURSIVE NumberOf(_)
NumberOf(s) ==
    IF s = "" THEN 0
    ELSE NumberOf(SubSeq(s, 1, Len(s) - 1)) * 10
            + (IndexOf(Digits, SubSeq(s, Len(s), Len(s))) - 1)

\* String(n)
RECURSIVE StringOf(_)
StringOf(n) ==
    IF n < 10 THEN SubSeq(Digits, n + 1, n + 1)
    ELSE StringOf(n \div 10) \o SubSeq(Digits, (n % 10) + 1, (n % 10) + 1)

AllDigits(s) == \A i \in 1..Len(s) : IsDigit(SubSeq(s, i, i))

\* the syntax of a URL scheme: a letter, then letters, digits, '+', '-', '.'
IsScheme(s) ==
    /\ s # ""
    /\ IsLetter(SubSeq(s, 1, 1))
    /\ \A i \in 1..Len(s) :
            LET ch == SubSeq(s, i, i)
            IN  IsLetter(ch) \/ IsDigit(ch) \/ ch \in {"+", "-", "."}

SpecialSchemes == {"http", "https", "ftp", "ws", "wss"}

\* the text of s from its first character that is not ch
RECURSIVE DropLeading(_, _)
DropLeading(s, ch) ==
    IF s # "" /\ SubSeq(s, 1, 1) = ch THEN DropLeading(SubSeq(s, 2, Len(s)), ch) ELSE s

\* getDefaultPort(protocol)
getDefaultPort(protocol) == IF protocol = "https:" THEN 443 ELSE 80

\* new URL(s), last step: the parsed URL. The port is empty when it is the
\* default of the scheme, host is hostname[:port]
UrlRecord(scheme, userinfo, hostname, port) ==
    Ok([protocol |-> scheme \o ":",
        username |-> SplitAt0(userinfo, ":"),
        password |-> IF Includes(userinfo, ":")
                     THEN SubSeq(userinfo, IndexOf(userinfo, ":") + 1, Len(userinfo))
                     ELSE "",
        hostname |-> hostname,
        port |-> port,
        host |-> IF port = "" THEN hostname ELSE hostname \o ":" \o port])

\* new URL(s), the port: digits only, dropped when it is the scheme's default
UrlPort(scheme, userinfo, hostname, rawPort) ==
    IF ~AllDigits(rawPort) THEN Throw("TypeError")
    ELSE UrlRecord(scheme, userinfo, hostname,
                   IF rawPort # "" /\ scheme \in {"http", "https"}
                        /\ NumberOf(rawPort) = getDefaultPort(scheme \o ":")
                   THEN "" ELSE rawPort)

\* new URL(s), the host: lower-cased, not empty for a special scheme, without
\* blanks, followed by nothing or by ':' and the port
UrlHost(scheme, userinfo, rawHost, afterHost) ==
    IF \/ scheme \in SpecialSchemes /\ rawHost = ""
       \/ afterHost # "" /\ ~StartsWith(afterHost, ":")
       \/ Includes(rawHost, " ")
    THEN Throw("TypeError")
    ELSE UrlPort(scheme, userinfo, ToLowerCase(rawHost), SubSeq(afterHost, 2, Len(afterHost)))

\* the host part of host[:port]: an IPv6 literal keeps its brackets
RawHostOf(hostport) ==
    IF StartsWith(hostport, "[") THEN SubSeq(hostport, 1, IndexOf(hostport, "]"))
    ELSE IF ~Includes(hostport, ":") THEN hostport
    ELSE SubSeq(hostport, 1, IndexOf(hostport, ":") - 1)

\* new URL(s), the text after the credentials
UrlHostPort(scheme, userinfo, hostport) ==
    IF StartsWith(hostport, "[") /\ ~Includes(hostport, "]") THEN Throw("TypeError")
    ELSE UrlHost(scheme, userinfo, RawHostOf(hostport),
                 SubSeq(hostport, Len(RawHostOf(hostport)) + 1, Len(hostport)))

\* new URL(s), the authority [user[:password]@]host[:port]
UrlAuthority(scheme, authority) ==
    UrlHostPort(scheme,
                SubSeq(authority, 1, LastIndexOf(authority, "@") - 1),
                SubSeq(authority, LastIndexOf(authority, "@") + 1, Len(authority)))

\* new URL(s), the text after "scheme:"; a special scheme takes any number of
\* slashes before the authority, another scheme has an authority after "//" only
UrlAfterScheme(scheme, afterScheme) ==
    IF ~IsScheme(scheme) THEN Throw("TypeError")
    ELSE IF scheme \notin SpecialSchemes /\ ~StartsWith(afterScheme, "//")
    THEN Ok([protocol |-> scheme \o ":", username |-> "", password |-> "",
             hostname |-> "", port |-> "", host |-> ""])
    ELSE UrlAuthority(scheme,
                      SplitAt0(IF scheme \in SpecialSchemes THEN DropLeading(afterScheme, "/")
                               ELSE SubSeq(afterScheme, 3, Len(afterScheme)), "/"))

\* new URL(s) for URLs of the shape scheme:[//][user[:password]@]host[:port][/path]:
\* the protocol keeps its colon and is lower-cased; TypeError when s does not parse
ParseUrl(s) ==
    IF IndexOf(s, ":") <= 1 THEN Throw("TypeError")
    ELSE UrlAfterScheme(ToLowerCase(SubSeq(s, 1, IndexOf(s, ":") - 1)),
                        SubSeq(s, IndexOf(s, ":") + 1, Len(s)))

\* PROXY_ENV_KEYS
PROXY_ENV_KEYS ==
    [k \in {"httpProxy", "httpsProxy", "noProxy"} |->
        CASE k = "httpProxy"  -> <<"HTTP_PROXY", "http_proxy">>
          [] k = "httpsProxy" -> <<"HTTPS_PROXY", "https_proxy">>
          [] k = "noProxy"    -> <<"NO_PROXY", "no_proxy">>]

\* getEnvValue(keys) in the environment env
getEnvValue(env, keys) ==
    LET hits == {i \in 1..Len(keys) : Truthy(env[keys[i]])}
    IN  IF hits = {} THEN None
        ELSE env[keys[CHOOSE i \in hits : \A j \in hits : i <= j]]

\* RuntimeInjector.getProxyOption(key)
getProxyOption(options, env, key) ==
    LET directValue == options[key]
    IN  IF Truthy(directValue) THEN directValue
        ELSE getEnvValue(env, PROXY_ENV_KEYS[key])

\* normalizeProxyUrl: the test /^[a-z]+:\/\//i
HasLetterScheme(proxyUrl) ==
    LET i == IndexOf(proxyUrl, "://")
    IN  /\ i > 1
        /\ \A j \in 1..(i - 1) : IsLetter(SubSeq(proxyUrl, j, j))

\* normalizeProxyUrl(proxyUrl, fallbackProtocol)
normalizeProxyUrl(proxyUrl, fallbackProtocol) ==
    IF HasLetterScheme(proxyUrl) THEN proxyUrl
    ELSE LET protocol == IF EndsWith(fallbackProtocol, ":") THEN fallbackProtocol
                         ELSE fallbackProtocol \o ":"
         IN  protocol \o "//" \o proxyUrl

\* parseNoProxyEntry, from value.startsWith("["): the host and port of the
\* value; a port of "" stands for an undefined port, which the caller does not
\* tell from an empty one
noProxyHostPort(value) ==
    IF StartsWith(value, "[") /\ Includes(value, "]")
    THEN [host |-> SubSeq(value, 2, IndexOf(value, "]") - 1),
          port |-> IF StartsWith(SubSeq(value, IndexOf(value, "]") + 1, Len(value)), ":")
                   THEN SubSeq(value, IndexOf(value, "]") + 2, Len(value)) ELSE ""]
    ELSE IF LastIndexOf(value, ":") > 0 /\ IndexOf(value, ":") = LastIndexOf(value, ":")
    THEN [host |-> SubSeq(value, 1, LastIndexOf(value, ":") - 1),
          port |-> SubSeq(value, LastIndexOf(value, ":") + 1, Len(value))]
    ELSE [host |-> value, port |-> ""]

\* parseNoProxyEntry, the try/catch: new URL(value).host, or on failure
\* value.split("://")[1] || value
noProxyUnschemed(value, parsed) ==
    IF IsOk(parsed) THEN parsed.val.host
    ELSE IF SplitAt1(value, "://") # "" THEN SplitAt1(value, "://") ELSE value

\* parseNoProxyEntry after entry.trim()
noProxyTrimmed(value) ==
    IF value = "" THEN [host |-> "", port |-> ""]
    ELSE noProxyHostPort(SplitAt0(IF Includes(value, "://")
                                  THEN noProxyUnschemed(value, ParseUrl(value))
                                  ELSE value, "/"))

\* parseNoProxyEntry(entry)
parseNoProxyEntry(entry) == noProxyTrimmed(Trim(entry))

IsListSeparator(ch) == ch = "," \/ IsSpace(ch)

\* noProxy.split(/[,\s]+/).map(trim).filter(Boolean): the non-empty entries in order
RECURSIVE SplitEntries(_)
SplitEntries(s) ==
    IF s = "" THEN <<>>
    ELSE IF IsListSeparator(SubSeq(s, 1, 1)) THEN SplitEntries(SubSeq(s, 2, Len(s)))
    ELSE LET seps == {i \in 1..Len(s) : IsListSeparator(SubSeq(s, i, i))}
             n == IF seps = {} THEN Len(s)
                  ELSE (CHOOSE i \in seps : \A j \in seps : i <= j) - 1
         IN  <<SubSeq(s, 1, n)>> \o SplitEntries(SubSeq(s, n + 1, Len(s)))

\* one pass of the loop of isNoProxyMatch: the entry makes it return true
entryMatches(entry, hostname, port) ==
    LET parsed == parseNoProxyEntry(entry)
        normalizedHost == ToLowerCase(parsed.host)
        matchHost == IF StartsWith(normalizedHost, "*")
                     THEN SubSeq(normalizedHost, 2, Len(normalizedHost))
                     ELSE normalizedHost
    IN  \/ entry = "*"
        \/ /\ parsed.host # ""
           /\ ~(parsed.port # "" /\ parsed.port # port)
           /\ IF ~(StartsWith(normalizedHost, ".") \/ StartsWith(normalizedHost, "*"))
              THEN hostname = normalizedHost
              ELSE EndsWith(hostname, matchHost)

\* isNoProxyMatch(targetUrl, noProxy), targetUrl a parsed URL
isNoProxyMatch(targetUrl, noProxy) ==
    LET entries == SplitEntries(noProxy)
        hostname == ToLowerCase(targetUrl.hostname)
        port == IF targetUrl.port # "" THEN targetUrl.port
                ELSE StringOf(getDefaultPort(targetUrl.protocol))
    IN  \E i \in 1..Len(entries) : entryMatches(entries[i], hostname, port)

\* buildProxyConfig(proxyUrl, fallbackProtocol)
buildProxyConfig(proxyUrl, fallbackProtocol) ==
    LET normalizedUrl == normalizeProxyUrl(proxyUrl, fallbackProtocol)
        parsed == ParseUrl(normalizedUrl)
    IN  IF ~IsOk(parsed) THEN Throw("InvalidProxyURL")
        ELSE IF parsed.val.protocol \notin {"http:", "https:"}
        THEN Throw("UnsupportedProxyProtocol")
        ELSE Ok([protocol |-> parsed.val.protocol,
                 host |-> parsed.val.hostname,
                 port |-> IF parsed.val.port # "" THEN NumberOf(parsed.val.port)
                          ELSE getDefaultPort(parsed.val.protocol),
                 auth |-> IF parsed.val.username # "" \/ parsed.val.password # ""
                          THEN Some(parsed.val.username \o ":" \o parsed.val.password)
                          ELSE None])

\* getProxyConfigForUrl building the proxy configuration before the no-proxy test
getProxyConfigForUrlEager(options, env, url) ==
    LET parsedUrl == ParseUrl(url).val
        noProxy == getProxyOption(options, env, "noProxy")
        proxyUrl == IF parsedUrl.protocol = "https:"
                    THEN getProxyOption(options, env, "httpsProxy")
                    ELSE getProxyOption(options, env, "httpProxy")
        config == buildProxyConfig(proxyUrl.val, parsedUrl.protocol)
    IN  IF ~Truthy(proxyUrl) THEN Ok(None)
        ELSE IF ~IsOk(config) THEN config
        ELSE IF Truthy(noProxy) /\ isNoProxyMatch(parsedUrl, noProxy.val) THEN Ok(None)
        ELSE Ok(Some(config.val))

\* RuntimeInjector.getProxyConfigForUrl(url): Ok(None) stands for undefined
getProxyConfigForUrl(options, env, url) ==
    LET parsedUrl == ParseUrl(url).val
        noProxy == getProxyOption(options, env, "noProxy")
        proxyUrl == IF parsedUrl.protocol = "https:"
                    THEN getProxyOption(options, env, "httpsProxy")
                    ELSE getProxyOption(options, env, "httpProxy")
        config == buildProxyConfig(proxyUrl.val, parsedUrl.protocol)
    IN  IF Truthy(noProxy) /\ isNoProxyMatch(parsedUrl, noProxy.val) THEN Ok(None)
        ELSE IF ~Truthy(proxyUrl) THEN Ok(None)
        ELSE IF IsOk(config) THEN Ok(Some(config.val)) ELSE config

----------------------------------------------------------------------------
(* The proxy functions applied to drawn inputs *)

ProxyKeys == {"httpProxy", "httpsProxy", "noProxy"}
EnvNames == {"HTTP_PROXY", "http_proxy", "HTTPS_PROXY", "https_proxy", "NO_PROXY", "no_proxy"}

OptionalValues(v) == {None, Some(""), Some(v)}

\* per-call options and environments: the setting of the key asked for takes
\* every combination of omitted, empty and set for the option and for its two
\* variables; the settings of the other two keys are all unset or all set
OptionInputs ==
    UNION {{[op |-> "option", key |-> k,
             options |-> [j \in ProxyKeys |-> IF j = k THEN o
                                              ELSE IF others THEN Some("opt-" \o j) ELSE None],
             env |-> [n \in EnvNames |->
                        IF n = PROXY_ENV_KEYS[k][1] THEN u
                        ELSE IF n = PROXY_ENV_KEYS[k][2] THEN l
                        ELSE IF others THEN Some(n) ELSE None]] :
                o \in OptionalValues("opt-" \o k),
                u \in OptionalValues(PROXY_ENV_KEYS[k][1]),
                l \in OptionalValues(PROXY_ENV_KEYS[k][2]),
                others \in BOOLEAN} :
           k \in ProxyKeys}

NoEnv == [n \in EnvNames |-> None]

TargetUrls ==
    {"http://example.com/", "http://example.com:8080/", "https://example.com/",
     "https://sub.example.com/", "http://notexample.com/", "http://[::1]:8080/",
     "http://[::1]/", "https://github.com/x", "http://EXAMPLE.com:80/"}

NoProxyEntries ==
    {"*", "example.com", "example.com:8080", ".example.com", "*.example.com",
     "*example.com", "[::1]", "[::1]:8080", "EXAMPLE.COM", "http://example.com:8080/p"}

\* NO_PROXY values of at most n entries, each preceded by the separator
RECURSIVE NoProxyJoined(_, _)
NoProxyJoined(n, sep) ==
    IF n = 0 THEN {""}
    ELSE LET shorter == NoProxyJoined(n - 1, sep)
         IN  shorter \cup {l \o sep \o e : l \in shorter, e \in NoProxyEntries}

\* NO_PROXY values of at most n entries, separated by commas or by blanks
NoProxyLists(n) == NoProxyJoined(n, ",") \cup NoProxyJoined(n, " ")

NoProxyInputs ==
    {[op |-> "noProxy", url |-> u, noProxy |-> l] :
        u \in TargetUrls, l \in NoProxyLists(MaxEntries)}

ProxyValues ==
    {"proxy.local:8080", "proxy.local", "http://proxy.local:3128", "HTTP://Proxy.Local:80",
     "https://user:pw@proxy.local", "socks5://host:1080", "socks://host:1080", "ftp://host",
     "http://", "http://bad host"}

ConfigInputs ==
    {[op |-> "proxyConfig", proxyUrl |-> v, fallbackProtocol |-> f] :
        v \in ProxyValues, f \in {"http:", "https:"}}

ForUrlInputs ==
    {[op |-> "proxyForUrl", url |-> u,
      options |-> [k \in ProxyKeys |-> CASE k = "noProxy" -> n
                                         [] k = "httpsProxy" -> s
                                         [] k = "httpProxy" -> None],
      env |-> [NoEnv EXCEPT !["http_proxy"] = h]] :
        u \in TargetUrls, n \in {None, Some("example.com,[::1]")},
        s \in {None} \cup {Some(v) : v \in ProxyValues},
        h \in {None, Some("http://proxy.local:3128")}}

\* this.getProxyOption(key)
DoProxyOption ==
    /\ qin.op = "option"
    /\ qout = NoQuery
    /\ qout' = [op |-> "option", res |-> getProxyOption(qin.options, qin.env, qin.key)]
    /\ UNCHANGED <<mainVars, qin>>

\* isNoProxyMatch(new URL(url), noProxy)
DoNoProxyMatch ==
    /\ qin.op = "noProxy"
    /\ qout = NoQuery
    /\ qout' = [op |-> "noProxy", res |-> isNoProxyMatch(ParseUrl(qin.url).val, qin.noProxy)]
    /\ UNCHANGED <<mainVars, qin>>

\* buildProxyConfig(proxyUrl, parsedUrl.protocol)
DoBuildProxyConfig ==
    /\ qin.op = "proxyConfig"
    /\ qout = NoQuery
    /\ qout' = [op |-> "proxyConfig",
                res |-> buildProxyConfig(qin.proxyUrl, qin.fallbackProtocol)]
    /\ UNCHANGED <<mainVars, qin>>

\* this.getProxyConfigForUrl(url), which downloadFile calls before the request
DoProxyForUrl ==
    /\ qin.op = "proxyForUrl"
    /\ qout = NoQuery
    /\ qout' = [op |-> "proxyForUrl",
                res |-> getProxyConfigForUrl(qin.options, qin.env, qin.url)]
    /\ UNCHANGED <<mainVars, qin>>

NextProxy == DoProxyOption \/ DoNoProxyMatch \/ DoBuildProxyConfig \/ DoProxyForUrl

InitProxy ==
    /\ InitMain(FALSE)
    /\ \/ qin \in OptionInputs
       \/ qin \in NoProxyInputs
       \/ qin \in ConfigInputs
       \/ qin \in ForUrlInputs
    /\ qout = NoQuery
SpecProxy == InitProxy /\ [][NextProxy]_vars

\* an absent and an empty setting both mean that nothing is configured
Effective(o) == IF Truthy(o) THEN o.val ELSE ""

\* the resolution order of a proxy setting as the specification states it
StatedProxyOption(options, env, key) ==
    LET upper == env[PROXY_ENV_KEYS[key][1]]
        lower == env[PROXY_ENV_KEYS[key][2]]
    IN  IF options[key].some THEN options[key]
        ELSE IF Truthy(upper) THEN upper
        ELSE IF Truthy(lower) THEN lower
        ELSE None

\* C16: for each of httpProxy, httpsProxy and noProxy an explicit per-call
\* option, when given, is used and the environment is ignored for that key;
\* otherwise the upper-case variable if non-empty, otherwise the lower-case
\* one if non-empty, otherwise the setting is absent.
C16_ProxyOptionPrecedence ==
    qout.op = "option"
        => Effective(qout.res) = Effective(StatedProxyOption(qin.options, qin.env, qin.key))

\* the host h is a proper subdomain of the domain d, at a label boundary
ProperSubdomain(h, d) == d # "" /\ Len(h) > Len(d) + 1 /\ EndsWith(h, "." \o d)

\* the entry bypasses (hostname, port) by the stated matching rules
StatedEntryBypass(entry, hostname, port) ==
    LET colon == LastIndexOf(entry, ":")
        host == ToLowerCase(IF colon = 0 THEN entry ELSE SubSeq(entry, 1, colon - 1))
        entryPort == IF colon = 0 THEN "" ELSE SubSeq(entry, colon + 1, Len(entry))
        domain == DropLeading(DropLeading(host, "*"), ".")
    IN  \/ entry = "*"
        \/ /\ host # ""
           /\ entryPort = "" \/ entryPort = port
           /\ IF StartsWith(host, ".") \/ StartsWith(host, "*")
              THEN ProperSubdomain(hostname, domain)
              ELSE hostname = host

\* the entry is a host name with an optional port: no scheme, no IPv6 brackets
PlainEntry(entry) == ~Includes(entry, "://") /\ ~Includes(entry, "[")

\* C17: '*' bypasses every host; 'example.com:8080' bypasses example.com only
\* on port 8080 (explicit or the scheme default); a plain entry bypasses
\* exactly its host; a leading-dot or '*'-prefixed entry bypasses only the
\* proper subdomains, at a label boundary, of the named domain.
C17_NoProxyMatching ==
    LET url == ParseUrl(qin.url).val
        port == IF url.port # "" THEN url.port ELSE IF url.protocol = "https:" THEN "443" ELSE "80"
        entries == SplitEntries(qin.noProxy)
    IN  (/\ qout.op = "noProxy"
         /\ ~StartsWith(url.hostname, "[")
         /\ \A i \in 1..Len(entries) : PlainEntry(entries[i]))
            => qout.res = \E i \in 1..Len(entries) :
                                StatedEntryBypass(entries[i], url.hostname, port)

\* C18: for a target whose host is the IPv6 literal [::1], the entry '[::1]'
\* bypasses it and the entry '[::1]:8080' bypasses it exactly when the URL's
\* port is 8080.
C18_NoProxyIPv6 ==
    LET url == ParseUrl(qin.url).val
        entries == SplitEntries(qin.noProxy)
    IN  (qout.op = "noProxy" /\ url.hostname = "[::1]" /\ Len(entries) = 1)
            => /\ entries[1] = "[::1]" => qout.res = TRUE
               /\ entries[1] = "[::1]:8080" => qout.res = (url.port = "8080")

\* the scheme a proxy value is written with, "" when it has none
WrittenScheme(proxyUrl) ==
    LET i == IndexOf(proxyUrl, "://")
        scheme == SubSeq(proxyUrl, 1, i - 1)
    IN  IF i > 1 /\ IsScheme(scheme) THEN ToLowerCase(scheme) ELSE ""

\* C19: a proxy value without scheme takes the target URL's scheme
\* (proxy.local:8080 for an https target gives https:, proxy.local, 8080, no
\* auth); a value that cannot be parsed fails with InvalidProxyURL; a value
\* whose scheme is neither http nor https fails with UnsupportedProxyProtocol
\* and yields no proxy configuration.
C19_ProxyUrlNormalization ==
    qout.op = "proxyConfig"
        => /\ (qin.proxyUrl = "proxy.local:8080" /\ qin.fallbackProtocol = "https:")
                => qout.res = Ok([protocol |-> "https:", host |-> "proxy.local",
                                  port |-> 8080, auth |-> None])
           /\ (WrittenScheme(qin.proxyUrl) = "" /\ IsOk(qout.res))
                => qout.res.val.protocol = qin.fallbackProtocol
           /\ qin.proxyUrl \in {"http://", "http://bad host"}
                => qout.res = Throw("InvalidProxyURL")
           /\ WrittenScheme(qin.proxyUrl) \notin {"", "http", "https"}
                => qout.res = Throw("UnsupportedProxyProtocol")

----------------------------------------------------------------------------
(* The cleanup engine applied to drawn target directories *)

CleanupPaths ==
    {<<"share", "doc", "readme.txt">>, <<"share", "man", "node.1">>, <<"include", "foo.h">>,
     <<"bin", "node">>, <<"README.md">>, <<"lib", "share", "x.h">>}

CleanupFlags == {"true", "false", "undefined"}
CleanupRules == {{}, {"*"}, {"bin/**"}, {"**/*.h", "share/doc/**"}}

\* the configurations inject hands to cleanupRuntime
CleanupConfigs ==
    {BoolCleanup(TRUE)}
        \cup {ConfigCleanup(d, v, m, r) :
                d \in CleanupFlags, v \in CleanupFlags, m \in CleanupFlags, r \in CleanupRules}

CleanupInputs ==
    {[op |-> "cleanup", files |-> {File(p, "x", "644") : p \in ps}, platform |-> pl,
      config |-> cfg] :
        ps \in SUBSET CleanupPaths, pl \in {"darwin", "linux", "win32"}, cfg \in CleanupConfigs}

\* await this.cleanupRuntime(cleanupConfig)
DoCleanup ==
    /\ qin.op = "cleanup"
    /\ qout = NoQuery
    /\ qout' = [op |-> "cleanup", res |-> cleanupRuntime(qin.files, qin.platform, qin.config)]
    /\ UNCHANGED <<mainVars, qin>>

\* the configurations and directories cleanupRuntime is run on with a failing removal
CleanupFaultInputs ==
    {[op |-> "cleanupFault", files |-> {File(p, "x", "644") : p \in ps}, platform |-> pl,
      config |-> cfg, bad |-> b, before |-> bf] :
        ps \in {CleanupPaths, CleanupPaths \ {<<"share", "man", "node.1">>}},
        pl \in {"darwin", "linux", "win32"},
        cfg \in {BoolCleanup(TRUE), ConfigCleanup("false", "undefined", "true", {"bin/**"}),
                 ConfigCleanup("true", "false", "false", {"*"})},
        b \in CleanupPaths, bf \in SUBSET CleanupPaths}

\* await this.cleanupRuntime(cleanupConfig) while fs.remove throws at one entry
DoCleanupFailing ==
    /\ qin.op = "cleanupFault"
    /\ qout = NoQuery
    /\ qout' = [op |-> "cleanupFault",
                res |-> cleanupRuntimeFailing(qin.files, qin.platform, qin.config,
                                              qin.bad, qin.before)]
    /\ UNCHANGED <<mainVars, qin>>

NextCleanup == DoCleanup \/ DoCleanupFailing

InitCleanup ==
    /\ InitMain(FALSE)
    /\ \/ qin \in CleanupInputs
       \/ qin \in CleanupFaultInputs
    /\ qout = NoQuery
SpecCleanup == InitCleanup /\ [][NextCleanup]_vars

UnixSteps == {<<"share">>, <<"include">>}

\* C21: cleanup is best-effort: when the removal of one step's matches fails
\* (one glob pattern on Windows, one of share/ and include/ on macOS/Linux) the
\* remaining steps are still attempted, so the matches of every step that did
\* not fail are gone, and the failure does not make the call fail.
C21_CleanupBestEffort ==
    (qout.op = "cleanupFault" /\ PathExists(qin.files, qin.bad))
        => /\ IsOk(qout.res)
           /\ IF qin.platform \in {"darwin", "linux"}
              THEN \A dir \in UnixSteps :
                        ~IsPrefix(dir, qin.bad) => ~PathExists(qout.res.val, dir)
              ELSE \A pat \in cleanupPatterns(qin.config) :
                        ~GlobMatch(pat, qin.bad)
                            => \A e \in qout.res.val : ~GlobMatch(pat, e.path)

\* the glob patterns of the three built-in categories
BuiltInPatterns ==
    {"**/*.md", "**/docs/**", "**/doc/**", "share/doc/**", "share/man/**",
     "**/*.h", "**/*.cc", "**/*.cpp", "**/*.c", "include/**", "**/*.map"}

\* what a cleanup with all three built-in categories leaves of the files
StatedFullCleanup(files, platform) ==
    IF platform \in {"darwin", "linux"}
    THEN {e \in files : e.path[1] \notin {"share", "include"}}
    ELSE {e \in files : \A pat \in BuiltInPatterns : ~GlobMatch(pat, e.path)}

\* C22: the cleanup step of inject comes after the marker file is written; for
\* bun, uv, ripgrep and python it removes no file whatever the cleanup option
\* is, for node with cleanup false it removes nothing, and for node with the
\* option omitted or true it applies all three built-in categories.
C22_CleanupOnlyForNodeWhenRequested ==
    [][\A c \in Callers :
        (call[c].pc = "cleanup" /\ call'[c].pc # "cleanup") =>
            LET info == call[c].info
                option == call[c].options.cleanup
                files == target[info.targetDir]
                after == target'[info.targetDir]
            IN  /\ PathExists(files, markerPath(c))
                /\ info.type # "node" => after = files
                /\ (option.kind = "boolean" /\ ~option.on) => after = files
                /\ (info.type = "node"
                        /\ (option.kind = "undefined" \/ (option.kind = "boolean" /\ option.on)))
                    => after = StatedFullCleanup(files, info.platform)]_vars

\* a bun install with a structured cleanup option succeeded, and a node install
\* for win32 with the cleanup option omitted has passed its cleanup step, which
\* removed README.md and kept node.exe
C22_Witness ==
    /\ prev.options.type = "bun" /\ prev.options.cleanup.kind = "config" /\ prev.result = "ok"
    /\ \E c \in Callers :
        /\ call[c].pc = "removeTemp"
        /\ call[c].info.type = "node" /\ call[c].info.platform = "win32"
        /\ call[c].options.cleanup.kind = "undefined"
        /\ PathExists(target[dirOf(c)], <<"node.exe">>)
        /\ ~PathExists(target[dirOf(c)], <<"README.md">>)

\* the modes the permission fix-up is to leave on the files of an install
ModesFixed(files, info) ==
    IF info.platform = "win32" THEN \A e \in files : e.mode = "644"
    ELSE /\ \A e \in files : e.path = info.executablePath => e.mode = "755"
         /\ info.type = "uv" => \A e \in files : e.path = <<"uvx">> => e.mode = "755"
         /\ info.type \in {"node", "python"}
                => \A e \in files : (Len(e.path) = 2 /\ e.path[1] = "bin") => e.mode = "755"

\* C23: after a successful install for a target os other than win32 the
\* primary executable has mode 755, for uv the companion uvx when present, for
\* node and python every file directly inside bin/; for a win32 target no mode
\* is changed; and the fix-up comes after normalization (it acts on the files
\* normalization left in the target directory) and before the marker is
\* written, changing nothing but modes.
C23_PermissionFixUp ==
    /\ [](\A c \in Callers :
            (call[c].pc \in {"marker", "cleanup", "removeTemp"}
                \/ (Done(c) /\ call[c].result = "ok"))
                => ModesFixed(target[call[c].info.targetDir], call[c].info))
    /\ [][\A c \in Callers :
            (call[c].pc = "chmod" /\ call'[c].pc = "marker") =>
                LET d == call[c].info.targetDir
                IN  /\ ~PathExists(target[d], markerPath(c))
                    /\ {[path |-> e.path, content |-> e.content] : e \in target'[d]}
                        = {[path |-> e.path, content |-> e.content] : e \in target[d]}]_vars

\* a uv install for linux ended successfully with uv and uvx executable
C23_Witness ==
    \E c \in Callers :
        /\ Done(c) /\ call[c].result = "ok"
        /\ call[c].info.type = "uv" /\ call[c].info.platform = "linux"
        /\ File(<<"uv">>, Build("uv", call[c].info.version, call[c].url), "755")
                \in target[dirOf(c)]
        /\ File(<<"uvx">>, Build("uv", call[c].info.version, call[c].url), "755")
                \in target[dirOf(c)]

----------------------------------------------------------------------------
(* The command-line tool *)

CliKeys ==
    {"type", "version", "targetDir", "platform", "arch", "cleanup",
     "httpProxy", "httpsProxy", "noProxy"}

\* program.opts(): the declared defaults stand in for the flags not given;
\* flags maps each option to the value given on the command line, if any
programOpts(flags) ==
    [type |-> IF flags["type"].some THEN flags["type"].val ELSE "node",
     runtimeVersion |-> flags["version"],
     dir |-> IF flags["targetDir"].some THEN flags["targetDir"].val ELSE "./runtime",
     platform |-> flags["platform"],
     arch |-> flags["arch"],
     cleanup |-> ~flags["cleanup"].some,
     httpProxy |-> flags["httpProxy"],
     httpsProxy |-> flags["httpsProxy"],
     noProxy |-> flags["noProxy"]]

\* the runtimeOptions main builds: {...config, type, version, targetDir,
\* platform, arch, cleanup}, then the three proxy flags when defined. A key
\* written in the literal replaces the one spread from config even when its
\* value is undefined; cleanup is the structure built from the negatable flags.
runtimeOptions(options, config) ==
    [type |-> Some(options.type),
     version |-> options.runtimeVersion,
     targetDir |-> Some(IF options.dir = "./runtime"
                        THEN "./runtime/" \o options.type ELSE options.dir),
     platform |-> options.platform,
     arch |-> options.arch,
     cleanup |-> IF options.cleanup THEN Some("fromFlags") ELSE Some("false"),
     httpProxy |-> IF options.httpProxy.some THEN options.httpProxy ELSE config["httpProxy"],
     httpsProxy |-> IF options.httpsProxy.some THEN options.httpsProxy
                    ELSE config["httpsProxy"],
     noProxy |-> IF options.noProxy.some THEN options.noProxy ELSE config["noProxy"]]

\* main() up to new RuntimeInjector(runtimeOptions): the options handed to the
\* constructor, or exit(1) for a type outside validTypes
cliMain(flags, config) ==
    LET options == programOpts(flags)
    IN  IF options.type \notin {"node", "bun", "uv", "ripgrep"} THEN Throw("exit1")
        ELSE Ok(runtimeOptions(options, config))

\* the settings that vary together: given on the command line or not, named
\* in the config file or not
GroupedKeys == {"platform", "arch", "httpProxy", "httpsProxy", "noProxy"}

CliInputs ==
    {[op |-> "cli",
      flags |-> [k \in CliKeys |->
                    CASE k = "type" -> ft
                      [] k = "version" -> fv
                      [] k = "targetDir" -> fd
                      [] k = "cleanup" -> fc
                      [] OTHER -> IF fg THEN Some("flag-" \o k) ELSE None],
      config |-> [k \in CliKeys |->
                    CASE k = "type" -> ct
                      [] k = "version" -> cv
                      [] k = "targetDir" -> cd
                      [] k = "cleanup" -> cc
                      [] OTHER -> IF cg THEN Some("file-" \o k) ELSE None]] :
        ft \in {None, Some("bun"), Some("deno")}, ct \in {None, Some("uv")},
        fv \in {None, Some("v1.0.0")}, cv \in {None, Some("0.9.0")},
        fd \in {None, Some("./out")}, cd \in {None, Some("./tools")},
        fc \in {None, Some("false")}, cc \in {None, Some("false"), Some("fromFile")},
        fg \in BOOLEAN, cg \in BOOLEAN}

\* tiny-runtime-injector [flags] [--config file]
DoCli ==
    /\ qin.op = "cli"
    /\ qout = NoQuery
    /\ qout' = [op |-> "cli", res |-> cliMain(qin.flags, qin.config)]
    /\ UNCHANGED <<mainVars, qin>>

NextCli == DoCli

InitCli ==
    /\ InitMain(FALSE)
    /\ qin \in CliInputs
    /\ qout = NoQuery
SpecCli == InitCli /\ [][NextCli]_vars

\* C24: the command-line tool merges the config file under the flags: for each
\* option a flag given on the command line is used, and for a flag not given
\* the value from the config file is used, so that a run with only --config
\* takes kind, version and target directory from the file.
C24_ConfigMergedUnderFlags ==
    (qout.op = "cli" /\ IsOk(qout.res))
        => \A k \in CliKeys :
                /\ qin.flags[k].some => qout.res.val[k] = qin.flags[k]
                /\ (~qin.flags[k].some /\ qin.config[k].some)
                        => qout.res.val[k] = qin.config[k]

----------------------------------------------------------------------------
(* Normalization applied to drawn scratch directories *)

\* the (os, arch) pairs normalization is run for
NormalizeTargets == {<<"linux", "x64">>, <<"darwin", "arm64">>, <<"win32", "x64">>}

bunExecName(platform) == IF platform = "win32" THEN "bun.exe" ELSE "bun"

\* the entries an extracted bun archive may hold
BunScratchPaths(platform, arch) ==
    LET dir == "bun-" \o getBunPlatformIdentifier(platform, arch).val
        exe == bunExecName(platform)
    IN  {<<dir, exe>>, <<dir, "LICENSE">>, <<exe>>, <<"other", exe>>, <<"README.md">>,
         <<"bun-profile">>}

\* a scratch file's content names the place the archive held it at
ScratchFile(path) ==
    File(path, IF Len(path) = 1 THEN "root" ELSE path[1], "644")

NormalizeInputs ==
    UNION {{[op |-> "bunExtract", platform |-> t[1], arch |-> t[2],
             scratch |-> {ScratchFile(q) : q \in ps}, target |-> tgt] :
                ps \in SUBSET BunScratchPaths(t[1], t[2]),
                tgt \in {{}, {File(<<bunExecName(t[1])>>, "old", "755")}}} :
           t \in NormalizeTargets}

\* RUNTIME_CONFIGS.bun.extractFiles(extractedDir, targetDir, version, platform, arch)
DoBunExtract ==
    /\ qin.op = "bunExtract"
    /\ qout = NoQuery
    /\ qout' = [op |-> "bunExtract",
                res |-> bunExtractFiles(qin.scratch, qin.target, DEFAULT_VERSIONS["bun"],
                                        qin.platform, qin.arch)]
    /\ UNCHANGED <<mainVars, qin>>

NextNormalize == DoBunExtract

InitNormalize ==
    /\ InitMain(FALSE)
    /\ qin \in NormalizeInputs
    /\ qout = NoQuery
SpecNormalize == InitNormalize /\ [][NextNormalize]_vars

\* C25: bun normalization, for every layout of the scratch directory: when the
\* nested directory bun-{platformToken} exists the executable is taken from
\* inside it; otherwise the executable named exactly bun (bun.exe on win32) is
\* taken from the scratch root; when the executable is in neither place
\* normalization fails with ExecutableNotFound; on success the executable is
\* at the root of the target directory.
C25_BunNormalization ==
    LET dir == "bun-" \o getBunPlatformIdentifier(qin.platform, qin.arch).val
        exe == bunExecName(qin.platform)
        nested == PathExists(qin.scratch, <<dir>>)
        inNested == ScratchFile(<<dir, exe>>) \in qin.scratch
        atRoot == ScratchFile(<<exe>>) \in qin.scratch
        r == qout.res
    IN  qout.op = "bunExtract"
            => /\ (nested /\ inNested)
                    => IsOk(r.res) /\ File(<<exe>>, dir, "644") \in r.target
               /\ (~nested /\ atRoot)
                    => IsOk(r.res) /\ File(<<exe>>, "root", "644") \in r.target
               /\ (~inNested /\ ~atRoot) => r.res = Throw("ExecutableNotFound")
               /\ IsOk(r.res) => \E e \in r.target : e.path = <<exe>> /\ e.content # "old"

\* C26: python resolution never falls back to a default token: on every os an
\* architecture other than x64, x86_64 and arm64 fails with
\* UnsupportedPlatform instead of being mapped to another architecture's token.
C26_PythonNoSilentDefault ==
    (qout.op = "resolve" /\ qin.type = "python"
        /\ qin.arch \notin {"x64", "x86_64", "arm64"})
        => qout.res = Throw("UnsupportedPlatform")

\* C27: the proxy setting consulted for a URL is httpsProxy when the URL's
\* scheme is https and httpProxy otherwise, whatever scheme the proxy value is
\* written with; and when the no-proxy list matches the URL the decision is to
\* connect directly, without the proxy value being parsed or validated.
C27_ProxyDecisionPerUrl ==
    LET https == StartsWith(qin.url, "https:")
        setting == getProxyOption(qin.options, qin.env,
                                  IF https THEN "httpsProxy" ELSE "httpProxy")
        noProxy == getProxyOption(qin.options, qin.env, "noProxy")
        bypass == Truthy(noProxy) /\ isNoProxyMatch(ParseUrl(qin.url).val, noProxy.val)
    IN  qout.op = "proxyForUrl"
            => /\ bypass => qout.res = Ok(None)
               /\ (~bypass /\ ~Truthy(setting)) => qout.res = Ok(None)
               /\ (~bypass /\ Truthy(setting))
                    => LET config == buildProxyConfig(setting.val,
                                                      IF https THEN "https:" ELSE "http:")
                       IN  qout.res = IF IsOk(config) THEN Ok(Some(config.val)) ELSE config

\* the no-proxy list matched an https target while the https proxy value was
\* one that cannot be parsed, and the decision was to connect directly
C27_Witness ==
    /\ qout.op = "proxyForUrl"
    /\ qin.url = "https://example.com/"
    /\ qin.options["noProxy"] = Some("example.com,[::1]")
    /\ qin.options["httpsProxy"] = Some("http://bad host")
    /\ qin.env["http_proxy"] = Some("http://proxy.local:3128")
    /\ qout.res = Ok(None)

----------------------------------------------------------------------------
(* The target directory before the download has completed *)

\* C28: the target directory is emptied only after the download has completed:
\* while a call has not yet passed its download, and after a call that failed
\* in the constructor, at platform resolution, URL construction or download
\* (proxy configuration is part of downloadFile), the files of the target
\* directory, an earlier installation and its marker included, are those that
\* were there when the call began; a call whose target directory differs from
\* that has made its request and did not fail at the download.
C28_TargetUntouchedBeforeDownloadCompletes ==
    \A c \in Callers :
        /\ call[c].pc \in {"ensureDir", "probe", "resolve", "download", "emptyDir"}
                => target[dirOf(c)] = call[c].before
        /\ (Failed(c) /\ call[c].at \in {"constructor", "resolve", "download"})
                => target[dirOf(c)] = call[c].before
        /\ (Active(c) /\ target[dirOf(c)] # call[c].before)
                => call[c].requested /\ call[c].at # "download"

C28_Witness ==
    \E c \in Callers :
        /\ Failed(c) /\ call[c].at = "download"
        /\ prev.result = "ok" /\ prev.options.targetDir = dirOf(c)
        /\ LET old == Constructor(prev.options).val
           IN  /\ PathExists(call[c].before, old.executablePath)
               /\ markerOf(old) \in target[dirOf(c)]
        /\ target[dirOf(c)] = call[c].before

----------------------------------------------------------------------------
(* The scratch directory across inject calls *)

\* the build the call of caller c asked for
buildOf(c) == Build(call[c].info.type, call[c].info.version, call[c].url)

\* C29: every file that normalization moves into the target directory comes
\* from the archive the same inject call downloaded: when a call normalizes,
\* the scratch directory holds only files of its own archive, and from then
\* until the call ends every file of the target directory other than the
\* marker is of the requested kind and version.
C29_NormalizationSeesOnlyCurrentArchive ==
    \A c \in Callers :
        /\ (call[c].pc = "normalize" /\ temp.extracted)
                => \A e \in temp.scratch : e.content = buildOf(c)
        /\ call[c].pc \in {"chmod", "marker", "cleanup", "removeTemp"}
                => \A e \in target[dirOf(c)] :
                        e.path # markerPath(c) => e.content = buildOf(c)

----------------------------------------------------------------------------
(* The target directory after successive installs *)

\* the marker files of a directory
MarkerFiles(files) ==
    {e \in files : Len(e.path) = 1
                    /\ \E t \in RuntimeTypes : StartsWith(e.path[1], t \o "_")}

\* the (kind, os, arch, version) of a constructed injector
installKey(info) == <<info.type, info.platform, info.arch, info.version>>

\* the probes for a (kind, os, arch, version) other than that of info, in
\* the directory of info
OtherProbes(info) ==
    {[Constructor(o).val EXCEPT !.targetDir = info.targetDir] :
        o \in {r \in Requests : IsOk(Constructor(r))
                                 /\ installKey(Constructor(r).val) # installKey(info)}}

\* C30: after a sequence of successful inject calls into a target directory,
\* the directory holds at most one marker file, that of the most recent
\* install with that install's version as content; the files of earlier
\* installs of another kind, platform or version are gone, and a probe for
\* any other (kind, os, arch, version) answers 'not installed'.
C30_OnlyMostRecentInstallRemains ==
    \A c \in Callers :
        (Succeeded(c) /\ ~prev.failed)
            => LET info == call[c].info
                   files == target[dirOf(c)]
               IN  /\ MarkerFiles(files) \subseteq {markerOf(info)}
                   /\ \A e \in files \ MarkerFiles(files) :
                        /\ BuildType(e.content) = info.type
                        /\ BuildVersion(e.content) = info.version
                        /\ call[c].result = "ok" => e.content = buildOf(c)
                   /\ \A other \in OtherProbes(info) :
                        \A run \in RunOutcomes(files, other.executablePath)
                                    \cup {Throw("NotRun")} :
                            ~isAlreadyInstalled(files, other, run)

C30_Witness ==
    \E c \in Callers :
        /\ Done(c) /\ call[c].result = "ok" /\ ~prev.failed
        /\ prev.result = "ok" /\ prev.options.targetDir = dirOf(c)
        /\ LET old == Constructor(prev.options).val
           IN  /\ old.type # call[c].info.type
               /\ markerOf(old) \in call[c].before
               /\ PathExists(call[c].before, old.executablePath)
        /\ MarkerFiles(target[dirOf(c)]) = {markerOf(call[c].info)}
        /\ PathExists(target[dirOf(c)], call[c].info.executablePath)

====
